---- MODULE Spec2Model ----
(***************************************************************************)
(* Verification model of fuck-shit-code (Rust): the metric engine          *)
(* (src/src/metrics), the CSS and PHP structural extractors                *)
(* (src/src/parser) and the analysis orchestrator                          *)
(* (src/src/analyzer/analyzer.rs).                                         *)
(*                                                                         *)
(* Conventions.                                                            *)
(*  - Text is a TLA+ string; characters are read with SubSeq(s, i, i).     *)
(*    The character CJK stands for one three-byte UTF-8 scalar value, so   *)
(*    that byte lengths and byte slices are computed as Rust computes them.*)
(*  - An f64 score is modelled by the exact rational it approximates, a    *)
(*    record [n, d] in lowest terms.  The rounding of f64 is modelled      *)
(*    where a comparison of the code depends on it: at the similarity      *)
(*    thresholds of metrics/duplication.rs (SimilarityAbove).              *)
(*  - A usize that the code decrements without a guard is modelled by an   *)
(*    integer together with the build's overflow-check setting: with       *)
(*    checks the subtraction panics, without them the value wraps, and a   *)
(*    negative integer v stands for the wrapped value 2^64 + v.            *)
(*  - A formatted issue string is modelled by the tuple of its template    *)
(*    tag and its arguments.                                               *)
(***************************************************************************)
EXTENDS Integers, Sequences, FiniteSets, TLC

(***************************************************************************)
(* Text helpers (Rust str methods)                                         *)
(***************************************************************************)
CJK == "%"

CharAt(s, i) == SubSeq(s, i, i)

Utf8Len(c) == IF c = CJK THEN 3 ELSE 1

RECURSIVE ByteLen(_)
ByteLen(s) == IF Len(s) = 0 THEN 0 ELSE Utf8Len(CharAt(s, 1)) + ByteLen(SubSeq(s, 2, Len(s)))

StartsWith(s, p) == Len(s) >= Len(p) /\ SubSeq(s, 1, Len(p)) = p

EndsWith(s, p) == Len(s) >= Len(p) /\ SubSeq(s, Len(s) - Len(p) + 1, Len(s)) = p

Contains(s, p) == \E i \in 1..(Len(s) - Len(p) + 1) : SubSeq(s, i, i + Len(p) - 1) = p

\* str::matches(p).count(): leftmost, non-overlapping occurrences.
RECURSIVE CountMatches(_, _)
CountMatches(s, p) ==
    IF Len(s) < Len(p) THEN 0
    ELSE IF SubSeq(s, 1, Len(p)) = p
         THEN 1 + CountMatches(SubSeq(s, Len(p) + 1, Len(s)), p)
         ELSE CountMatches(SubSeq(s, 2, Len(s)), p)

IsWhitespace(c) == c \in {" ", "\t", "\r", "\n"}

RECURSIVE TrimStart(_)
TrimStart(s) ==
    IF Len(s) > 0 /\ IsWhitespace(CharAt(s, 1)) THEN TrimStart(SubSeq(s, 2, Len(s))) ELSE s

RECURSIVE TrimEnd(_)
TrimEnd(s) ==
    IF Len(s) > 0 /\ IsWhitespace(CharAt(s, Len(s))) THEN TrimEnd(SubSeq(s, 1, Len(s) - 1)) ELSE s

Trim(s) == TrimEnd(TrimStart(s))

Digits == {"0", "1", "2", "3", "4", "5", "6", "7", "8", "9"}

UpperChars ==
    {"A", "B", "C", "D", "E", "F", "G", "H", "I", "J", "K", "L", "M",
     "N", "O", "P", "Q", "R", "S", "T", "U", "V", "W", "X", "Y", "Z"}

LowerChars ==
    {"a", "b", "c", "d", "e", "f", "g", "h", "i", "j", "k", "l", "m",
     "n", "o", "p", "q", "r", "s", "t", "u", "v", "w", "x", "y", "z"}

\* the index of the first occurrence of character c in s, 0 when absent
RECURSIVE FindChar(_, _, _)
FindChar(s, c, i) ==
    IF i > Len(s) THEN 0
    ELSE IF CharAt(s, i) = c THEN i
    ELSE FindChar(s, c, i + 1)

\* str::split(sep) for a one-character separator
RECURSIVE Split(_, _)
Split(s, sep) ==
    LET k == FindChar(s, sep, 1)
    IN  IF k = 0 THEN <<s>>
        ELSE <<SubSeq(s, 1, k - 1)>> \o Split(SubSeq(s, k + 1, Len(s)), sep)

DigitValue(c) == CHOOSE v \in 0..9 : ToString(v) = c

\* str::parse::<usize>(): the value, or -1 for Err
RECURSIVE ParseDigits(_, _)
ParseDigits(s, acc) ==
    IF Len(s) = 0 THEN acc
    ELSE IF CharAt(s, 1) \in Digits
         THEN ParseDigits(SubSeq(s, 2, Len(s)), acc * 10 + DigitValue(CharAt(s, 1)))
         ELSE -1

ParseUsize(s) == IF Len(s) = 0 THEN -1 ELSE ParseDigits(s, 0)

(***************************************************************************)
(* Exact rational arithmetic standing for f64                              *)
(***************************************************************************)
Abs(x) == IF x < 0 THEN -x ELSE x

RECURSIVE GCD(_, _)
GCD(a, b) == IF b = 0 THEN a ELSE GCD(b, a % b)

Q(n, d) ==
    LET g == GCD(Abs(n), d)
    IN  [n |-> n \div g, d |-> d \div g]

QInt(k) == [n |-> k, d |-> 1]

\* the operations cancel common factors before they multiply, so that
\* intermediate values stay as small as the results
QAdd(a, b) ==
    LET g == GCD(a.d, b.d)
    IN  Q(a.n * (b.d \div g) + b.n * (a.d \div g), (a.d \div g) * b.d)

QSub(a, b) == QAdd(a, [n |-> -b.n, d |-> b.d])

QMul(a, b) ==
    LET g1 == GCD(Abs(a.n), b.d)
        g2 == GCD(Abs(b.n), a.d)
    IN  [n |-> (a.n \div g1) * (b.n \div g2), d |-> (a.d \div g2) * (b.d \div g1)]

\* a / b for b > 0
QDiv(a, b) == QMul(a, [n |-> b.d, d |-> b.n])

QLt(a, b) ==
    LET g == GCD(a.d, b.d)
    IN  a.n * (b.d \div g) < b.n * (a.d \div g)

QLe(a, b) == ~QLt(b, a)

QMin(a, b) == IF QLe(a, b) THEN a ELSE b

QMax(a, b) == IF QLe(a, b) THEN b ELSE a

Zero == QInt(0)

One == QInt(1)

RECURSIVE QSum(_)
QSum(seq) == IF Len(seq) = 0 THEN Zero ELSE QAdd(seq[1], QSum(Tail(seq)))

InUnit(q) == QLe(Zero, q) /\ QLe(q, One)

Range(seq) == {seq[k] : k \in 1..Len(seq)}

\* the set S as a sequence in increasing order
RECURSIVE Ascending(_)
Ascending(S) ==
    IF S = {} THEN <<>>
    ELSE LET least == CHOOSE x \in S : \A y \in S : x <= y
         IN  <<least>> \o Ascending(S \ {least})

RECURSIVE SumSeq(_)
SumSeq(seq) == IF Len(seq) = 0 THEN 0 ELSE seq[1] + SumSeq(Tail(seq))

RECURSIVE Flatten(_)
Flatten(seqs) == IF Len(seqs) = 0 THEN <<>> ELSE seqs[1] \o Flatten(Tail(seqs))

\* every sequence that enumerates the finite set S once: the iteration
\* orders of a std HashMap with keys S (RandomState seeds differ between
\* map instances and between runs)
RECURSIVE Perms(_)
Perms(S) ==
    IF S = {} THEN {<<>>}
    ELSE UNION {{<<x>> \o p : p \in Perms(S \ {x})} : x \in S}

(***************************************************************************)
(* Byte order of strings (str::cmp), used by sort_by on unit names         *)
(***************************************************************************)
AsciiOrder ==
    " !#$&'()*+,-./0123456789:;<=>?@ABCDEFGHIJKLMNOPQRSTUVWXYZ[]^_abcdefghijklmnopqrstuvwxyz{|}~"

\* the rank of a character in byte order; the CJK stand-in ranks above ASCII
CharCode(c) == IF c = CJK THEN Len(AsciiOrder) + 1 ELSE FindChar(AsciiOrder, c, 1)

RECURSIVE StrLess(_, _)
StrLess(a, b) ==
    IF Len(b) = 0 THEN FALSE
    ELSE IF Len(a) = 0 THEN TRUE
    ELSE IF CharAt(a, 1) = CharAt(b, 1)
         THEN StrLess(SubSeq(a, 2, Len(a)), SubSeq(b, 2, Len(b)))
         ELSE CharCode(CharAt(a, 1)) < CharCode(CharAt(b, 1))

\* insert x into the name-sorted sequence seq after every element that is
\* not greater (slice::sort_by is stable)
RECURSIVE InsertByName(_, _)
InsertByName(seq, x) ==
    IF Len(seq) = 0 THEN <<x>>
    ELSE IF StrLess(x.name, seq[1].name) THEN <<x>> \o seq
    ELSE <<seq[1]>> \o InsertByName(Tail(seq), x)

RECURSIVE SortByName(_)
SortByName(seq) ==
    IF Len(seq) = 0 THEN <<>>
    ELSE InsertByName(SortByName(SubSeq(seq, 1, Len(seq) - 1)), seq[Len(seq)])

RECURSIVE Join(_, _)
Join(strs, sep) ==
    IF Len(strs) = 0 THEN ""
    ELSE IF Len(strs) = 1 THEN strs[1]
    ELSE strs[1] \o sep \o Join(Tail(strs), sep)

(***************************************************************************)
(* Data model: parser/base.rs, metrics/base.rs, common/language.rs         *)
(***************************************************************************)
LanguageType ==
    {"Rust", "Go", "JavaScript", "TypeScript", "Python", "Java", "CPlusPlus",
     "C", "CSharp", "PHP", "HTML", "CSS", "Unsupported"}

Function(name, start_line, end_line, complexity, parameters) ==
    [name |-> name, start_line |-> start_line, end_line |-> end_line,
     complexity |-> complexity, parameters |-> parameters]

BaseParseResult(functions, comment_lines, total_lines, language) ==
    [functions |-> functions, comment_lines |-> comment_lines,
     total_lines |-> total_lines, language |-> language]

MetricResult(score, weight, description, issues) ==
    [score |-> score, weight |-> weight, description |-> description, issues |-> issues]

\* MetricResult::new clamps the score into [0, 1]
MetricResultNew(score, weight, description, issues) ==
    MetricResult(QMax(QMin(score, One), Zero), weight, description, issues)

\* end_line - start_line + 1 as the metrics compute it
LineCount(func) == func.end_line - func.start_line + 1

(***************************************************************************)
(* metrics/complexity.rs                                                   *)
(***************************************************************************)
ComplexityName == "CyclomaticComplexity"

ComplexityWeight == Q(3, 10)

CheckFunctionComplexity(func) ==
    IF func.complexity > 15 THEN <<<<"complexity_very_high", func.name, func.complexity>>>>
    ELSE IF func.complexity > 10 THEN <<<<"complexity_high", func.name, func.complexity>>>>
    ELSE <<>>

CalculateAverageComplexity(functions) ==
    IF Len(functions) = 0 THEN [avg |-> Zero, issues |-> <<>>]
    ELSE [avg |-> Q(SumSeq([i \in 1..Len(functions) |-> functions[i].complexity]),
                    Len(functions)),
          issues |-> Flatten([i \in 1..Len(functions) |->
                                 CheckFunctionComplexity(functions[i])])]

ComplexityCalculateScore(avg_complexity) ==
    QMin(QAdd(Q(4, 10), QMul(avg_complexity, Q(1, 10))), One)

ComplexityAnalyze(parse_result) ==
    LET r == CalculateAverageComplexity(parse_result.functions)
    IN  MetricResultNew(ComplexityCalculateScore(r.avg), ComplexityWeight,
                        "desc:CyclomaticComplexity", r.issues)

(***************************************************************************)
(* metrics/function_length.rs                                              *)
(***************************************************************************)
\* a name that collides with another metric's name
FunctionLengthNameClash == "CyclomaticComplexity"

FunctionLengthName == "StateManagement"

FunctionLengthWeight == Q(2, 10)

FunctionLengthIssues(func) ==
    LET line_count == LineCount(func)
    IN  (IF line_count > 120 THEN <<<<"length_extreme", func.name, line_count>>>>
         ELSE IF line_count > 70 THEN <<<<"length_very_long", func.name, line_count>>>>
         ELSE IF line_count > 40 THEN <<<<"length_long", func.name, line_count>>>>
         ELSE <<>>)
        \o
        (IF func.complexity > 18
         THEN <<<<"length_complexity_severe", func.name, func.complexity>>>>
         ELSE IF func.complexity > 12
         THEN <<<<"length_complexity_high", func.name, func.complexity>>>>
         ELSE <<>>)
        \o
        (IF func.parameters > 8 THEN <<<<"params_extreme", func.name, func.parameters>>>>
         ELSE IF func.parameters > 6 THEN <<<<"params_many", func.name, func.parameters>>>>
         ELSE <<>>)

\* analyze whose early return gives the base score of the other metrics
FunctionLengthAnalyzeBaseScore(parse_result) ==
    MetricResult(Q(4, 10), FunctionLengthWeight, "desc:StateManagement", <<>>)

\* analyze that counts a unit in every band whose limit it exceeds
FunctionLengthAnalyzeCumulative(parse_result) ==
    LET functions == parse_result.functions
        n == Len(functions)
        extreme == Cardinality({i \in 1..n : LineCount(functions[i]) > 120})
        very_long == Cardinality({i \in 1..n : LineCount(functions[i]) > 70})
        long == Cardinality({i \in 1..n : LineCount(functions[i]) > 40})
        score == QAdd(QAdd(QMul(Q(long, n), Q(3, 10)), QMul(Q(very_long, n), Q(5, 10))),
                      QMul(Q(extreme, n), Q(8, 10)))
    IN  IF n = 0
        THEN MetricResult(Zero, FunctionLengthWeight, "desc:StateManagement", <<>>)
        ELSE MetricResult(IF QLt(One, score) THEN One ELSE score,
                          FunctionLengthWeight, "desc:StateManagement",
                          Flatten([i \in 1..n |-> FunctionLengthIssues(functions[i])]))

FunctionLengthAnalyze(parse_result) ==
    LET functions == parse_result.functions
        n == Len(functions)
        extreme == Cardinality({i \in 1..n : LineCount(functions[i]) > 120})
        very_long == Cardinality({i \in 1..n : LineCount(functions[i]) > 70
                                               /\ LineCount(functions[i]) <= 120})
        long == Cardinality({i \in 1..n : LineCount(functions[i]) > 40
                                          /\ LineCount(functions[i]) <= 70})
        score == QAdd(QAdd(QMul(Q(long, n), Q(3, 10)), QMul(Q(very_long, n), Q(5, 10))),
                      QMul(Q(extreme, n), Q(8, 10)))
    IN  IF n = 0
        THEN MetricResult(Zero, FunctionLengthWeight, "desc:StateManagement", <<>>)
        ELSE MetricResult(IF QLt(One, score) THEN One ELSE score,
                          FunctionLengthWeight, "desc:StateManagement",
                          Flatten([i \in 1..n |-> FunctionLengthIssues(functions[i])]))

(***************************************************************************)
(* metrics/comment_ratio.rs                                                *)
(***************************************************************************)
CommentRatioName == "CommentCoverage"

CommentRatioWeight == Q(15, 100)

\* format!("{:.2}") of a non-negative value: hundredths, rounded to nearest
Fmt2(q) == (2 * q.n * 100 + q.d) \div (2 * q.d)

\* the score with 5 taken off for each percent of comment lines
CommentRatioCalculateScoreSteep(ratio) ==
    LET percentage_comment == QMul(ratio, QInt(100))
        score == QSub(Q(9, 10), QMul(percentage_comment, QInt(5)))
    IN  IF QLt(score, Zero) THEN Zero ELSE score

CommentRatioCalculateScore(ratio) ==
    LET percentage_comment == QMul(ratio, QInt(100))
        score == QSub(Q(9, 10), QMul(percentage_comment, Q(5, 100)))
    IN  IF QLt(score, Zero) THEN Zero ELSE score

CommentRatioAnalyze(parse_result) ==
    LET total_lines == parse_result.total_lines
        comment_lines == parse_result.comment_lines
        comment_ratio == IF total_lines > 0 THEN Q(comment_lines, total_lines) ELSE Zero
        issues ==
            IF QLt(comment_ratio, Q(5, 100))
            THEN <<<<"comment_extremely_low", Fmt2(QMul(comment_ratio, QInt(100)))>>>>
            ELSE IF QLt(comment_ratio, Q(1, 10))
            THEN <<<<"comment_low", Fmt2(QMul(comment_ratio, QInt(100)))>>>>
            ELSE <<>>
    IN  MetricResult(CommentRatioCalculateScore(comment_ratio), CommentRatioWeight,
                     "desc:CommentCoverage", issues)

(***************************************************************************)
(* metrics/error_handling.rs                                               *)
(***************************************************************************)
ErrorHandlingName == "ErrorHandling"

ErrorHandlingWeight == Q(1, 10)

ErrorHandlingScore(has_error_potential, has_error_handling, error_handling_quality) ==
    [has_error_potential |-> has_error_potential,
     has_error_handling |-> has_error_handling,
     error_handling_quality |-> error_handling_quality]

AnalyzeRustErrorHandling(func) ==
    LET has_result_return == Contains(func.name, "Result") \/ func.complexity > 5
        has_error_handling == func.complexity > 3
        quality == IF has_error_handling THEN Q(8, 10)
                   ELSE IF has_result_return THEN Q(5, 10)
                   ELSE Q(3, 10)
    IN  ErrorHandlingScore(has_result_return \/ func.complexity > 8,
                           has_error_handling, quality)

AnalyzeGoErrorHandling(func) ==
    LET has_error_potential == func.complexity > 5
        has_error_handling == func.complexity > 7
        quality == IF has_error_handling THEN Q(7, 10)
                   ELSE IF has_error_potential THEN Q(3, 10)
                   ELSE Q(5, 10)
    IN  ErrorHandlingScore(has_error_potential, has_error_handling, quality)

AnalyzeJsErrorHandling(func) ==
    LET has_async == Contains(func.name, "async") \/ Contains(func.name, "fetch")
                     \/ Contains(func.name, "request")
        has_error_potential == has_async \/ func.complexity > 6
        has_error_handling == func.complexity > 8
        quality == IF has_error_handling THEN Q(6, 10)
                   ELSE IF has_async /\ ~has_error_handling THEN Q(2, 10)
                   ELSE Q(4, 10)
    IN  ErrorHandlingScore(has_error_potential, has_error_handling, quality)

AnalyzePythonErrorHandling(func) ==
    LET has_io_operations == Contains(func.name, "read") \/ Contains(func.name, "write")
                             \/ Contains(func.name, "open")
                             \/ Contains(func.name, "request")
        has_error_potential == has_io_operations \/ func.complexity > 6
        has_error_handling == func.complexity > 7
        quality == IF has_error_handling THEN Q(65, 100)
                   ELSE IF has_io_operations /\ ~has_error_handling THEN Q(15, 100)
                   ELSE Q(4, 10)
    IN  ErrorHandlingScore(has_error_potential, has_error_handling, quality)

AnalyzeJavaErrorHandling(func) ==
    LET has_error_potential == func.complexity > 5
        has_error_handling == func.complexity > 8
        quality == IF has_error_handling THEN Q(75, 100)
                   ELSE IF has_error_potential THEN Q(35, 100)
                   ELSE Q(5, 10)
    IN  ErrorHandlingScore(has_error_potential, has_error_handling, quality)

\* the C rule with a quality of 0.2 for a unit that handles its errors
AnalyzeCErrorHandlingWeak(func) ==
    LET has_malloc == Contains(func.name, "alloc") \/ Contains(func.name, "malloc")
        has_file_ops == Contains(func.name, "open") \/ Contains(func.name, "read")
                        \/ Contains(func.name, "write")
        has_error_potential == has_malloc \/ has_file_ops \/ func.complexity > 6
        has_error_handling == func.complexity > 7
        quality == IF has_error_handling THEN Q(2, 10)
                   ELSE IF (has_malloc \/ has_file_ops) /\ ~has_error_handling THEN Q(1, 10)
                   ELSE Q(3, 10)
    IN  ErrorHandlingScore(has_error_potential, has_error_handling, quality)

AnalyzeCErrorHandling(func) ==
    LET has_malloc == Contains(func.name, "alloc") \/ Contains(func.name, "malloc")
        has_file_ops == Contains(func.name, "open") \/ Contains(func.name, "read")
                        \/ Contains(func.name, "write")
        has_error_potential == has_malloc \/ has_file_ops \/ func.complexity > 6
        has_error_handling == func.complexity > 7
        quality == IF has_error_handling THEN Q(5, 10)
                   ELSE IF (has_malloc \/ has_file_ops) /\ ~has_error_handling THEN Q(1, 10)
                   ELSE Q(3, 10)
    IN  ErrorHandlingScore(has_error_potential, has_error_handling, quality)

AnalyzeFunctionErrorHandling(func, language) ==
    CASE language = "Rust" -> AnalyzeRustErrorHandling(func)
      [] language = "Go" -> AnalyzeGoErrorHandling(func)
      [] language \in {"JavaScript", "TypeScript"} -> AnalyzeJsErrorHandling(func)
      [] language = "Python" -> AnalyzePythonErrorHandling(func)
      [] language \in {"Java", "CSharp"} -> AnalyzeJavaErrorHandling(func)
      [] language \in {"C", "CPlusPlus"} -> AnalyzeCErrorHandling(func)
      [] OTHER -> ErrorHandlingScore(FALSE, FALSE, Q(5, 10))

ErrorHandlingIssue(func, error_score) ==
    IF error_score.has_error_potential /\ ~error_score.has_error_handling
    THEN <<<<"error_handling_missing", func.name>>>>
    ELSE IF error_score.has_error_potential
            /\ QLt(error_score.error_handling_quality, Q(3, 10))
    THEN <<<<"error_handling_poor", func.name>>>>
    ELSE <<>>

ErrorHandlingAnalyze(parse_result) ==
    LET functions == parse_result.functions
        language == parse_result.language
        n == Len(functions)
        scores == [i \in 1..n |-> AnalyzeFunctionErrorHandling(functions[i], language)]
        functions_with_errors ==
            Cardinality({i \in 1..n : scores[i].has_error_potential
                                      /\ ~scores[i].has_error_handling})
        total_error_handling_score ==
            QSum([i \in 1..n |-> scores[i].error_handling_quality])
        avg_error_handling == QDiv(total_error_handling_score, QInt(n))
        no_error_handling_ratio == Q(functions_with_errors, n)
        score == QAdd(QMul(QSub(One, avg_error_handling), Q(6, 10)),
                      QMul(no_error_handling_ratio, Q(4, 10)))
    IN  IF n = 0
        THEN MetricResult(Zero, ErrorHandlingWeight, "desc:ErrorHandling", <<>>)
        ELSE MetricResult(score, ErrorHandlingWeight, "desc:ErrorHandling",
                          Flatten([i \in 1..n |-> ErrorHandlingIssue(functions[i], scores[i])]))

(***************************************************************************)
(* metrics/naming.rs                                                       *)
(***************************************************************************)
NamingName == "NamingConvention"

NamingWeight == Q(8, 100)

\* is_bad_name without its stoplist
IsBadNameNoStoplist(name) ==
    \/ ByteLen(name) <= 2
    \/ \A i \in 1..Len(name) : CharAt(name, i) \in {"x", "y", "z"}

IsBadName(name) ==
    \/ ByteLen(name) <= 2
    \/ name \in {"tmp", "temp", "xxx", "foo", "bar", "test"}
    \/ \A i \in 1..Len(name) : CharAt(name, i) \in {"x", "y", "z"}

\* the score without its clamp at 1
NamingCalculateScoreUnclamped(bad_ratio) == QAdd(Q(4, 10), QMul(bad_ratio, QInt(10)))

NamingCalculateScore(bad_ratio) ==
    LET score == QAdd(Q(4, 10), QMul(bad_ratio, QInt(10)))
    IN  IF QLt(One, score) THEN One ELSE score

NamingAnalyze(parse_result) ==
    LET functions == parse_result.functions
        n == Len(functions)
        bad_names == Cardinality({i \in 1..n : IsBadName(functions[i].name)})
        bad_ratio == IF n # 0 THEN Q(bad_names, n) ELSE Zero
    IN  MetricResult(NamingCalculateScore(bad_ratio), NamingWeight, "desc:NamingConvention",
                     Flatten([i \in 1..n |->
                                 IF IsBadName(functions[i].name)
                                 THEN <<<<"bad_name", functions[i].name>>>>
                                 ELSE <<>>]))

(***************************************************************************)
(* metrics/structure.rs                                                    *)
(***************************************************************************)
StructureName == "CodeStructure"

StructureWeight == Q(15, 100)

\* (complexity as f64 / 3.0).ceil() as usize
EstimatedDepth(func) == (func.complexity + 2) \div 3

RECURSIVE MaxOf(_)
MaxOf(seq) ==
    IF Len(seq) = 0 THEN 0
    ELSE LET m == MaxOf(Tail(seq)) IN IF seq[1] > m THEN seq[1] ELSE m

\* the score without its upper limit
StructureCalculateScoreUnclamped(max_nesting_depth) ==
    IF max_nesting_depth > 1
    THEN QAdd(Q(4, 10), QMul(QInt(max_nesting_depth - 1), Q(15, 100)))
    ELSE Q(4, 10)

StructureCalculateScore(max_nesting_depth) ==
    LET nesting_score ==
            IF max_nesting_depth > 1
            THEN QAdd(Q(4, 10), QMul(QInt(max_nesting_depth - 1), Q(15, 100)))
            ELSE Q(4, 10)
    IN  IF QLt(One, nesting_score) THEN One ELSE nesting_score

StructureIssue(func) ==
    IF EstimatedDepth(func) > 5
    THEN <<<<"nesting_too_deep", func.name, EstimatedDepth(func)>>>>
    ELSE IF EstimatedDepth(func) > 3
    THEN <<<<"nesting_deep", func.name, EstimatedDepth(func)>>>>
    ELSE <<>>

StructureAnalyze(parse_result) ==
    LET functions == parse_result.functions
        n == Len(functions)
        max_nesting_depth == MaxOf([i \in 1..n |-> EstimatedDepth(functions[i])])
    IN  MetricResult(StructureCalculateScore(max_nesting_depth), StructureWeight,
                     "desc:CodeStructure",
                     Flatten([i \in 1..n |-> StructureIssue(functions[i])]))

(***************************************************************************)
(* metrics/duplication.rs                                                  *)
(***************************************************************************)
DuplicationName == "CodeDuplication"

DuplicationWeight == Q(15, 100)

NamePrefixes ==
    <<"get", "set", "handle", "process", "check", "validate", "init", "create",
      "update", "delete">>

\* the first prefix of the list that the name starts with, followed by '_'
RECURSIVE FirstPrefix(_, _)
FirstPrefix(name, prefixes) ==
    IF Len(prefixes) = 0 THEN ""
    ELSE IF StartsWith(name, prefixes[1]) THEN prefixes[1] \o "_"
    ELSE FirstPrefix(name, Tail(prefixes))

ExtractNamePattern(name) ==
    LET has_uppercase == \E i \in 1..Len(name) : CharAt(name, i) \in UpperChars
        has_underscore == \E i \in 1..Len(name) : CharAt(name, i) = "_"
    IN  FirstPrefix(name, NamePrefixes)
        \o (IF has_uppercase THEN "camel"
            ELSE IF has_underscore THEN "snake"
            ELSE "flat")

ExtractFunctionPattern(func) ==
    LET lines == LineCount(func)
        size_category == IF lines <= 10 THEN "tiny"
                         ELSE IF lines <= 30 THEN "small"
                         ELSE IF lines <= 60 THEN "medium"
                         ELSE IF lines <= 100 THEN "large"
                         ELSE "huge"
        complexity_category == IF func.complexity <= 3 THEN "trivial"
                               ELSE IF func.complexity <= 7 THEN "simple"
                               ELSE IF func.complexity <= 12 THEN "moderate"
                               ELSE IF func.complexity <= 20 THEN "complex"
                               ELSE "very_complex"
        param_category == IF func.parameters = 0 THEN "no_params"
                          ELSE IF func.parameters = 1 THEN "single_param"
                          ELSE IF func.parameters <= 3 THEN "few_params"
                          ELSE IF func.parameters <= 5 THEN "several_params"
                          ELSE "many_params"
    IN  size_category \o ":" \o complexity_category \o ":" \o param_category \o ":"
        \o ToString(lines) \o ":" \o ExtractNamePattern(func.name)

CalculateSimilarityScore(pattern) ==
    LET parts == Split(pattern, ":")
        size_part == IF parts[1] \in {"tiny", "small"} THEN Q(2, 10)
                     ELSE IF parts[1] = "medium" THEN Q(3, 10)
                     ELSE Q(4, 10)
        complexity_part == CASE parts[2] = "trivial" -> Q(1, 10)
                             [] parts[2] = "simple" -> Q(2, 10)
                             [] parts[2] = "moderate" -> Q(3, 10)
                             [] parts[2] \in {"complex", "very_complex"} -> Q(4, 10)
                             [] OTHER -> Zero
        param_part == IF parts[3] # "no_params" THEN Q(2, 10) ELSE Zero
        lines == ParseUsize(parts[4])
        lines_part == IF lines > 20 THEN Q(2, 10)
                      ELSE IF lines > 10 THEN Q(1, 10)
                      ELSE Zero
    IN  IF Len(parts) < 4 THEN Zero
        ELSE QMin(QAdd(QAdd(QAdd(size_part, complexity_part), param_part), lines_part), One)

\* the addends of calculate_similarity_score in tenths: size, complexity,
\* parameters and line count, in the order in which they are added
SimilarityParts(pattern) ==
    LET parts == Split(pattern, ":")
        lines == ParseUsize(parts[4])
    IN  <<IF parts[1] \in {"tiny", "small"} THEN 2 ELSE IF parts[1] = "medium" THEN 3 ELSE 4,
          CASE parts[2] = "trivial" -> 1
            [] parts[2] = "simple" -> 2
            [] parts[2] = "moderate" -> 3
            [] parts[2] \in {"complex", "very_complex"} -> 4
            [] OTHER -> 0,
          IF parts[3] # "no_params" THEN 2 ELSE 0,
          IF lines > 20 THEN 2 ELSE IF lines > 10 THEN 1 ELSE 0>>

\* f64 addition rounds each partial sum to a double.  Added to 0.0 in the
\* order above, these addends end one double above the double nearest their
\* exact sum (0.2 + 0.2 + 0.2 + 0.1 is 0.7000000000000001) ...
SumsRoundedUp ==
    { <<2, 0, 0, 1>>, <<2, 0, 2, 2>>, <<2, 1, 0, 0>>, <<2, 2, 0, 2>>, <<2, 2, 2, 0>>,
      <<2, 2, 2, 1>>, <<2, 4, 0, 0>>, <<2, 4, 0, 1>>, <<3, 1, 0, 2>>, <<3, 1, 2, 0>>,
      <<3, 1, 2, 1>>, <<4, 0, 0, 2>>, <<4, 0, 2, 0>>, <<4, 0, 2, 1>>, <<4, 2, 0, 0>>,
      <<4, 2, 0, 1>> }

\* ... and these one double below it (0.2 + 0.3 + 0.2 + 0.2 is
\* 0.8999999999999999); every other sum is the double nearest the exact sum
SumsRoundedDown ==
    { <<2, 3, 2, 1>>, <<2, 3, 2, 2>>, <<3, 2, 2, 1>>, <<3, 2, 2, 2>>, <<3, 4, 0, 1>>,
      <<3, 4, 0, 2>>, <<3, 4, 2, 0>>, <<3, 4, 2, 1>>, <<4, 1, 2, 1>>, <<4, 1, 2, 2>>,
      <<4, 3, 0, 1>>, <<4, 3, 0, 2>>, <<4, 3, 2, 0>>, <<4, 3, 2, 1>> }

\* similarity_score > limit for a limit of whole tenths, as the comparison
\* of the doubles decides it: a sum that ends above the double of its exact
\* value exceeds a limit it equals, a sum that ends below it still exceeds
\* every limit a tenth or more below
SimilarityAbove(pattern, limit) ==
    \/ QLt(limit, CalculateSimilarityScore(pattern))
    \/ /\ CalculateSimilarityScore(pattern) = limit
       /\ Len(Split(pattern, ":")) >= 4
       /\ SimilarityParts(pattern) \in SumsRoundedUp

\* HashMap<String, Vec<&Function>>: pattern -> members in source order
GroupSimilarFunctions(functions) ==
    [p \in {ExtractFunctionPattern(functions[i]) : i \in 1..Len(functions)} |->
        SelectSeq(functions, LAMBDA f : ExtractFunctionPattern(f) = p)]

RECURSIVE TrimEndDigits(_)
TrimEndDigits(s) ==
    IF Len(s) > 0 /\ CharAt(s, Len(s)) \in Digits
    THEN TrimEndDigits(SubSeq(s, 1, Len(s) - 1))
    ELSE s

NameSuffixes == <<"_v2", "_v3", "_new", "_old", "_temp", "_tmp", "_copy", "_backup">>

\* strip the first suffix of the list that base ends with
RECURSIVE StripSuffix(_, _)
StripSuffix(base, suffixes) ==
    IF Len(suffixes) = 0 THEN base
    ELSE IF EndsWith(base, suffixes[1]) THEN SubSeq(base, 1, Len(base) - Len(suffixes[1]))
    ELSE StripSuffix(base, Tail(suffixes))

GetBaseName(name) ==
    LET base == StripSuffix(TrimEndDigits(name), NameSuffixes)
    IN  IF ByteLen(base) < 3 THEN "" ELSE base

\* base name -> members, only for names that differ from their base name;
\* groups of one member are dropped (retain)
DetectNamingPatternDuplication(functions) ==
    LET eligible == SelectSeq(functions,
                              LAMBDA f : GetBaseName(f.name) # "" /\ GetBaseName(f.name) # f.name)
        members(b) == SelectSeq(eligible, LAMBDA f : GetBaseName(f.name) = b)
    IN  [b \in {c \in {GetBaseName(eligible[i].name) : i \in 1..Len(eligible)} :
                    Len(members(c)) > 1} |-> members(b)]

\* the number of units whose (parameters, complexity) pair occurs more than once
DetectParameterDuplication(functions) ==
    Cardinality({i \in 1..Len(functions) :
                    \E j \in 1..Len(functions) :
                        /\ j # i
                        /\ functions[j].parameters = functions[i].parameters
                        /\ functions[j].complexity = functions[i].complexity})

\* format!("{:.0}") of a non-negative value
Fmt0(q) == (2 * q.n + q.d) \div (2 * q.d)

\* the loop body with the "highly similar" threshold at 0.9
SimilarityGroupOutcomeStrict(pattern, members) ==
    LET group == SortByName(members)
        similarity_score == CalculateSimilarityScore(pattern)
        names == Join([i \in 1..Len(group) |-> group[i].name], ", ")
    IN  IF Len(group) > 1 /\ SimilarityAbove(pattern, Q(9, 10))
        THEN [lines |-> SumSeq([i \in 1..(Len(group) - 1) |-> LineCount(group[i + 1])]),
              issues |-> <<<<"highly_similar", Fmt0(QMul(similarity_score, QInt(100))), names>>>>,
              score |-> QMul(similarity_score, QInt(Len(group)))]
        ELSE IF Len(group) > 1 /\ SimilarityAbove(pattern, Q(5, 10))
        THEN [lines |-> 0,
              issues |-> <<<<"similar_structure", names>>>>,
              score |-> QMul(QMul(similarity_score, Q(5, 10)), QInt(Len(group)))]
        ELSE [lines |-> 0, issues |-> <<>>, score |-> Zero]

\* one iteration of the loop over similarity groups
SimilarityGroupOutcome(pattern, members) ==
    LET group == SortByName(members)
        similarity_score == CalculateSimilarityScore(pattern)
        names == Join([i \in 1..Len(group) |-> group[i].name], ", ")
    IN  IF Len(group) > 1 /\ SimilarityAbove(pattern, Q(7, 10))
        THEN [lines |-> SumSeq([i \in 1..(Len(group) - 1) |-> LineCount(group[i + 1])]),
              issues |-> <<<<"highly_similar", Fmt0(QMul(similarity_score, QInt(100))), names>>>>,
              score |-> QMul(similarity_score, QInt(Len(group)))]
        ELSE IF Len(group) > 1 /\ SimilarityAbove(pattern, Q(5, 10))
        THEN [lines |-> 0,
              issues |-> <<<<"similar_structure", names>>>>,
              score |-> QMul(QMul(similarity_score, Q(5, 10)), QInt(Len(group)))]
        ELSE [lines |-> 0, issues |-> <<>>, score |-> Zero]

NamingGroupOutcome(base_name, duplicates) ==
    IF Len(duplicates) > 2
    THEN [issues |-> <<<<"naming_pattern", base_name, Len(duplicates)>>>>,
          score |-> QMul(Q(3, 10), QInt(Len(duplicates)))]
    ELSE [issues |-> <<>>, score |-> Zero]

\* the similarity groups that the loop of analyze acts on: more than one
\* member and similarity above 0.5 (any other group changes nothing)
ActiveGroups(functions) ==
    LET groups == GroupSimilarFunctions(functions)
    IN  {p \in DOMAIN groups :
            Len(groups[p]) > 1 /\ SimilarityAbove(p, Q(5, 10))}

\* the naming groups that the loop of analyze acts on: more than two members
ActiveNamingGroups(functions) ==
    LET groups == DetectNamingPatternDuplication(functions)
    IN  {b \in DOMAIN groups : Len(groups[b]) > 2}

\* analyze; group_order and naming_order are the orders in which the two
\* hash maps are iterated, restricted to the groups the loops act on
DuplicationAnalyze(parse_result, group_order, naming_order) ==
    LET functions == parse_result.functions
        n == Len(functions)
        similarity_groups == GroupSimilarFunctions(functions)
        total_lines == SumSeq([i \in 1..n |-> LineCount(functions[i])])
        g == [k \in 1..Len(group_order) |->
                 SimilarityGroupOutcome(group_order[k], similarity_groups[group_order[k]])]
        naming_duplicates == DetectNamingPatternDuplication(functions)
        nd == [k \in 1..Len(naming_order) |->
                  NamingGroupOutcome(naming_order[k], naming_duplicates[naming_order[k]])]
        param_duplicates == DetectParameterDuplication(functions)
        total_duplicated_lines == SumSeq([k \in 1..Len(g) |-> g[k].lines])
        duplication_score ==
            QAdd(QAdd(QSum([k \in 1..Len(g) |-> g[k].score]),
                      QSum([k \in 1..Len(nd) |-> nd[k].score])),
                 IF param_duplicates > 3 THEN QMul(Q(2, 10), QInt(param_duplicates)) ELSE Zero)
        duplication_ratio ==
            IF total_lines > 0 THEN Q(total_duplicated_lines, total_lines) ELSE Zero
        normalized_duplication_score == QMin(QDiv(duplication_score, QInt(n)), One)
        score == QAdd(QMul(duplication_ratio, Q(4, 10)),
                      QMul(normalized_duplication_score, Q(6, 10)))
    IN  IF n < 2
        THEN MetricResult(Zero, DuplicationWeight, "desc:CodeDuplication", <<>>)
        ELSE MetricResult(QMin(score, One), DuplicationWeight, "desc:CodeDuplication",
                          Flatten([k \in 1..Len(g) |-> g[k].issues])
                          \o Flatten([k \in 1..Len(nd) |-> nd[k].issues])
                          \o (IF param_duplicates > 3
                              THEN <<<<"parameter_duplication", param_duplicates>>>>
                              ELSE <<>>))

\* the iteration orders the two hash maps of analyze can have
GroupOrders(parse_result) == Perms(ActiveGroups(parse_result.functions))

NamingOrders(parse_result) == Perms(ActiveNamingGroups(parse_result.functions))

(***************************************************************************)
(* metrics/mod.rs and the per-file pipeline of analyzer/analyzer.rs        *)
(***************************************************************************)
\* MetricFactory::create_all_metrics: the metric objects, in vector order
CreateAllMetrics ==
    <<"CyclomaticComplexityMetric", "FunctionLengthMetric", "CommentRatioMetric",
      "ErrorHandlingMetric", "NamingConventionMetric", "CodeDuplicationMetric",
      "StructureAnalysisMetric">>

\* Metric::name of each metric object
MetricName(metric) ==
    CASE metric = "CyclomaticComplexityMetric" -> ComplexityName
      [] metric = "FunctionLengthMetric" -> FunctionLengthName
      [] metric = "CommentRatioMetric" -> CommentRatioName
      [] metric = "ErrorHandlingMetric" -> ErrorHandlingName
      [] metric = "NamingConventionMetric" -> NamingName
      [] metric = "CodeDuplicationMetric" -> DuplicationName
      [] metric = "StructureAnalysisMetric" -> StructureName

\* Metric::analyze of each metric object
MetricAnalyze(metric, parse_result, group_order, naming_order) ==
    CASE metric = "CyclomaticComplexityMetric" -> ComplexityAnalyze(parse_result)
      [] metric = "FunctionLengthMetric" -> FunctionLengthAnalyze(parse_result)
      [] metric = "CommentRatioMetric" -> CommentRatioAnalyze(parse_result)
      [] metric = "ErrorHandlingMetric" -> ErrorHandlingAnalyze(parse_result)
      [] metric = "NamingConventionMetric" -> NamingAnalyze(parse_result)
      [] metric = "CodeDuplicationMetric" ->
             DuplicationAnalyze(parse_result, group_order, naming_order)
      [] metric = "StructureAnalysisMetric" -> StructureAnalyze(parse_result)

\* HashMap::insert
MapInsert(map, key, value) ==
    [k \in (DOMAIN map) \cup {key} |-> IF k = key THEN value ELSE map[k]]

EmptyMap == [k \in {} |-> 0]

\* analyze_metrics: run the metrics in vector order, inserting each result
\* under the metric's name
RECURSIVE AnalyzeMetricsFrom(_, _, _, _, _)
AnalyzeMetricsFrom(metric_list, results, parse_result, group_order, naming_order) ==
    IF Len(metric_list) = 0 THEN results
    ELSE AnalyzeMetricsFrom(Tail(metric_list),
                            MapInsert(results, MetricName(metric_list[1]),
                                      MetricAnalyze(metric_list[1], parse_result,
                                                    group_order, naming_order)),
                            parse_result, group_order, naming_order)

AnalyzeMetrics(parse_result, group_order, naming_order) ==
    AnalyzeMetricsFrom(CreateAllMetrics, EmptyMap, parse_result, group_order, naming_order)

\* the sum of f[k] over the keys of a map of rationals
RECURSIVE QSumMap(_)
QSumMap(f) ==
    IF DOMAIN f = {} THEN Zero
    ELSE LET k == CHOOSE x \in DOMAIN f : TRUE
         IN  QAdd(f[k], QSumMap([x \in (DOMAIN f) \ {k} |-> f[x]]))

\* calculate_score
CalculateScore(metric_map) ==
    LET total_score == QSumMap([k \in DOMAIN metric_map |->
                                   QMul(metric_map[k].score, metric_map[k].weight)])
        total_weight == QSumMap([k \in DOMAIN metric_map |-> metric_map[k].weight])
    IN  IF QLt(Zero, total_weight) THEN QDiv(total_score, total_weight) ELSE Zero

MetricNames ==
    {ComplexityName, FunctionLengthName, CommentRatioName, ErrorHandlingName,
     NamingName, DuplicationName, StructureName}

\* collect_issues, iterating the map's values in the order key_order.
\* Values with no issues add nothing to the flat_map, so key_order lists only
\* the keys whose result has issues.
CollectIssues(metric_map, key_order) ==
    Flatten([k \in 1..Len(key_order) |-> metric_map[key_order[k]].issues])

IssueOrders(metric_map) ==
    Perms({k \in DOMAIN metric_map : metric_map[k].issues # <<>>})

(***************************************************************************)
(* parser/css.rs                                                           *)
(***************************************************************************)
\* str::replace of one character
RECURSIVE ReplaceChar(_, _, _)
ReplaceChar(s, c, r) ==
    IF Len(s) = 0 THEN ""
    ELSE (IF CharAt(s, 1) = c THEN r ELSE CharAt(s, 1)) \o ReplaceChar(SubSeq(s, 2, Len(s)), c, r)

\* the number of leading characters of s that make up exactly nbytes bytes,
\* or -1 when byte offset nbytes is not a character boundary of s
RECURSIVE CharsOfBytes(_, _)
CharsOfBytes(s, nbytes) ==
    IF nbytes = 0 THEN 0
    ELSE IF nbytes < 0 \/ Len(s) = 0 THEN -1
    ELSE LET rest == CharsOfBytes(SubSeq(s, 2, Len(s)), nbytes - Utf8Len(CharAt(s, 1)))
         IN  IF rest < 0 THEN -1 ELSE rest + 1

\* CSSParser::count_comment_lines
RECURSIVE CssCountCommentLines(_, _)
CssCountCommentLines(lines, in_comment) ==
    IF Len(lines) = 0 THEN 0
    ELSE LET trimmed == Trim(lines[1])
         IN  IF in_comment
             THEN 1 + CssCountCommentLines(Tail(lines), ~Contains(trimmed, "*/"))
             ELSE IF StartsWith(trimmed, "/*")
                  THEN 1 + CssCountCommentLines(Tail(lines), ~Contains(trimmed, "*/"))
                  ELSE CssCountCommentLines(Tail(lines), FALSE)

\* CSSParser::calculate_selector_complexity
CalculateSelectorComplexity(selector) ==
    CountMatches(selector, " ") + CountMatches(selector, ">")
    + CountMatches(selector, "+") + CountMatches(selector, "~")
    + CountMatches(selector, ".") + CountMatches(selector, "#") * 2
    + CountMatches(selector, "[") + CountMatches(selector, ":")
    + CountMatches(selector, ",")

ComplexProperties ==
    <<"transform", "animation", "transition", "background", "border",
      "box-shadow", "text-shadow", "filter">>

\* CSSParser::calculate_properties_complexity
CalculatePropertiesComplexity(content) ==
    CountMatches(content, ":")
    + SumSeq([k \in 1..Len(ComplexProperties) |->
                 CountMatches(content, ComplexProperties[k]) * 2])
    + CountMatches(content, "calc(") * 2
    + CountMatches(content, "@media") * 3
    + CountMatches(content, "{")

\* CSSParser::calculate_rule_complexity
CalculateRuleComplexity(selector, content) ==
    1 + CalculateSelectorComplexity(selector) + CalculatePropertiesComplexity(content)

\* CSSParser::extract_rule_name: [panic |-> TRUE] when the byte slice
\* &cleaned[..47] does not end on a character boundary
ExtractRuleName(selector) ==
    LET cleaned == ReplaceChar(ReplaceChar(Trim(selector), "\n", " "), "\r", "")
    IN  IF ByteLen(cleaned) > 50
        THEN LET chars == CharsOfBytes(cleaned, 47)
             IN  IF chars < 0 THEN [panic |-> TRUE, name |-> ""]
                 ELSE [panic |-> FALSE, name |-> SubSeq(cleaned, 1, chars) \o "..."]
        ELSE IF cleaned = "" THEN [panic |-> FALSE, name |-> "css_rule"]
        ELSE [panic |-> FALSE, name |-> cleaned]

\* the local variables of detect_css_rules before the first line; i is the
\* zero-based index of the next line and status is "run", "done" or "panic"
CssScanInit(lines) ==
    [i |-> 0, in_rule |-> FALSE, rule_start |-> 0, rule_content |-> "",
     selector |-> "", brace_count |-> 0, rules |-> <<>>,
     status |-> IF Len(lines) = 0 THEN "done" ELSE "run"]

\* one iteration of the for loop of detect_css_rules, on line lines[st.i + 1]
CssScanLine(st, lines, overflow_checks) ==
    LET i == st.i
        line == lines[i + 1]
        trimmed == Trim(line)
        next == IF i + 1 < Len(lines) THEN "run" ELSE "done"
        starts == /\ ~st.in_rule
                  /\ \/ Contains(trimmed, "{")
                     \/ /\ Contains(trimmed, ":")
                        /\ ~Contains(trimmed, "{")
                        /\ i + 1 < Len(lines)
                        /\ Contains(Trim(lines[i + 2]), "{")
        s1 == IF starts
              THEN [st EXCEPT !.in_rule = TRUE,
                              !.rule_start = i,
                              !.rule_content = "",
                              !.selector = IF Contains(trimmed, "{")
                                           THEN Trim(Split(trimmed, "{")[1])
                                           ELSE trimmed,
                              !.brace_count = CountMatches(trimmed, "{")]
              ELSE st
        opened == s1.brace_count + CountMatches(line, "{")
        closed == opened - CountMatches(line, "}")
        rule_name == ExtractRuleName(s1.selector)
        content == s1.rule_content \o line \o "\n"
    IN  IF StartsWith(trimmed, "/*") \/ trimmed = ""
        THEN [st EXCEPT !.i = i + 1, !.status = next]
        ELSE IF ~s1.in_rule
        THEN [s1 EXCEPT !.i = i + 1, !.status = next]
        ELSE IF closed < 0 /\ overflow_checks
        THEN [s1 EXCEPT !.rule_content = content, !.brace_count = opened,
                        !.status = "panic"]
        ELSE IF closed # 0
        THEN [s1 EXCEPT !.i = i + 1, !.rule_content = content,
                        !.brace_count = closed, !.status = next]
        ELSE IF rule_name.panic
        THEN [s1 EXCEPT !.rule_content = content, !.brace_count = closed,
                        !.in_rule = FALSE, !.status = "panic"]
        ELSE [s1 EXCEPT !.i = i + 1, !.rule_content = content,
                        !.brace_count = closed, !.in_rule = FALSE,
                        !.rules = Append(@, Function(rule_name.name, s1.rule_start + 1,
                                                     i + 1,
                                                     CalculateRuleComplexity(s1.selector,
                                                                             content),
                                                     0)),
                        !.status = next]

\* detect_css_rules: the loop run from state st to its end or to a panic
RECURSIVE CssScanFrom(_, _, _)
CssScanFrom(st, lines, overflow_checks) ==
    IF st.status # "run" THEN st
    ELSE CssScanFrom(CssScanLine(st, lines, overflow_checks), lines, overflow_checks)

DetectCssRules(lines, overflow_checks) ==
    CssScanFrom(CssScanInit(lines), lines, overflow_checks)

\* CSSParser::parse after detect_css_rules ended in scan state: status "ok",
\* or "panic" when the thread unwinds
CssParseOf(scan, lines) ==
    IF scan.status = "panic"
    THEN [status |-> "panic", result |-> BaseParseResult(<<>>, 0, 0, "CSS")]
    ELSE [status |-> "ok",
          result |-> BaseParseResult(scan.rules, CssCountCommentLines(lines, FALSE),
                                     Len(lines), "CSS")]

CssParse(lines, overflow_checks) == CssParseOf(DetectCssRules(lines, overflow_checks), lines)

(***************************************************************************)
(* parser/php.rs                                                           *)
(***************************************************************************)
\* the first position at or after p of s that holds no whitespace (\s*)
RECURSIVE SkipWs(_, _)
SkipWs(s, p) ==
    IF p <= Len(s) /\ IsWhitespace(CharAt(s, p)) THEN SkipWs(s, p + 1) ELSE p

HasAt(s, p, word) == p + Len(word) - 1 <= Len(s) /\ SubSeq(s, p, p + Len(word) - 1) = word

\* the first of the alternatives that s holds at position p, "" when none
RECURSIVE FirstOf(_, _, _)
FirstOf(s, p, words) ==
    IF Len(words) = 0 THEN ""
    ELSE IF HasAt(s, p, words[1]) THEN words[1]
    ELSE FirstOf(s, p, Tail(words))

IdentStart == UpperChars \cup LowerChars \cup {"_"}

\* the position after the longest run of [a-zA-Z0-9_] from p
RECURSIVE IdentRest(_, _)
IdentRest(s, p) ==
    IF p <= Len(s) /\ CharAt(s, p) \in IdentStart \cup Digits THEN IdentRest(s, p + 1) ELSE p

NoCaptures == [matched |-> FALSE, name |-> "", params_str |-> ""]

\* the tail shared by both patterns, from position p:
\* ([a-zA-Z_][a-zA-Z0-9_]*)\s*\(([^)]*)\)
NameAndParams(line, p) ==
    IF ~(p <= Len(line) /\ CharAt(line, p) \in IdentStart) THEN NoCaptures
    ELSE LET name_end == IdentRest(line, p)
             open == SkipWs(line, name_end)
             close == FindChar(line, ")", open + 1)
         IN  IF HasAt(line, open, "(") /\ close > 0
             THEN [matched |-> TRUE, name |-> SubSeq(line, p, name_end - 1),
                   params_str |-> SubSeq(line, open + 1, close - 1)]
             ELSE NoCaptures

Visibility == <<"public", "private", "protected">>

\* function_regex.captures(line):
\* ^\s*(public|private|protected)?\s*(static)?\s*function\s+ and the tail
FunctionRegex(line) ==
    LET p0 == SkipWs(line, 1)
        p1 == SkipWs(line, p0 + Len(FirstOf(line, p0, Visibility)))
        p2 == SkipWs(line, p1 + Len(FirstOf(line, p1, <<"static">>)))
        p3 == p2 + Len("function")
        p4 == SkipWs(line, p3)
    IN  IF HasAt(line, p2, "function") /\ p4 > p3 THEN NameAndParams(line, p4)
        ELSE NoCaptures

\* method_regex with its two optional groups taken or skipped:
\* ^\s*(public|private|protected)\s+(static\s+)?(function\s+)? and the tail
MethodRegexWith(line, take_static, take_function) ==
    LET p0 == SkipWs(line, 1)
        vis == FirstOf(line, p0, Visibility)
        p1 == SkipWs(line, p0 + Len(vis))
        s2 == p1 + Len("static")
        p2 == IF take_static THEN SkipWs(line, s2) ELSE p1
        s3 == p2 + Len("function")
        p3 == IF take_function THEN SkipWs(line, s3) ELSE p2
    IN  IF /\ vis # ""
           /\ p1 > p0 + Len(vis)
           /\ take_static => (HasAt(line, p1, "static") /\ p2 > s2)
           /\ take_function => (HasAt(line, p2, "function") /\ p3 > s3)
        THEN NameAndParams(line, p3)
        ELSE NoCaptures

\* method_regex.captures(line): a greedy optional group is tried before its
\* omission
MethodRegex(line) ==
    LET tries == <<MethodRegexWith(line, TRUE, TRUE), MethodRegexWith(line, TRUE, FALSE),
                   MethodRegexWith(line, FALSE, TRUE), MethodRegexWith(line, FALSE, FALSE)>>
        hits == {k \in 1..4 : tries[k].matched}
    IN  IF hits = {} THEN NoCaptures
        ELSE tries[CHOOSE k \in hits : \A j \in hits : k <= j]

\* PHPParser::count_parameters
CountParameters(params_str) ==
    IF Trim(params_str) = "" THEN 0 ELSE Len(Split(Trim(params_str), ","))

\* PHPParser::count_braces
CountBraces(line) == <<CountMatches(line, "{"), CountMatches(line, "}")>>

\* PHPParser::find_function_end from line i (zero-based) of its for loop:
\* [panic, end_line, found]
RECURSIVE FindFunctionEndFrom(_, _, _, _, _, _)
FindFunctionEndFrom(lines, start, i, brace_count, found_first_brace, overflow_checks) ==
    IF i >= Len(lines)
    THEN [panic |-> FALSE, end_line |-> Len(lines) - 1, found |-> found_first_brace]
    ELSE LET brace_changes == CountBraces(lines[i + 1])
             opened == brace_count + brace_changes[1]
             found == found_first_brace \/ brace_changes[1] > 0
             closed == opened - brace_changes[2]
         IN  IF closed < 0 /\ overflow_checks
             THEN [panic |-> TRUE, end_line |-> i, found |-> FALSE]
             ELSE IF found /\ closed = 0
             THEN [panic |-> FALSE, end_line |-> i, found |-> TRUE]
             ELSE IF i = start /\ Contains(lines[i + 1], ";")
             THEN [panic |-> FALSE, end_line |-> start, found |-> FALSE]
             ELSE FindFunctionEndFrom(lines, start, i + 1, closed, found, overflow_checks)

FindFunctionEnd(lines, start, overflow_checks) ==
    FindFunctionEndFrom(lines, start, start, 0, FALSE, overflow_checks)

ControlFlowKeywords ==
    <<" if ", " else ", " elseif ", " for ", " foreach ", " while ", " do ",
      " switch ", " case ", " catch ", " try ">>

\* PHPParser::count_control_flow_keywords
CountControlFlowKeywords(line) ==
    SumSeq([k \in 1..Len(ControlFlowKeywords) |-> CountMatches(line, ControlFlowKeywords[k])])

\* PHPParser::count_logical_operators
CountLogicalOperators(line) ==
    CountMatches(line, " && ") + CountMatches(line, " || ")
    + CountMatches(line, " and ") + CountMatches(line, " or ")

\* PHPParser::count_php_specific
CountPhpSpecific(line) ==
    CountMatches(line, "??") + CountMatches(line, "?:") + CountMatches(line, " ? ")

\* PHPParser::calculate_complexity
PhpCalculateComplexity(function_lines) ==
    1 + SumSeq([k \in 1..Len(function_lines) |->
                   CountControlFlowKeywords(function_lines[k])
                   + CountLogicalOperators(function_lines[k])
                   + CountPhpSpecific(function_lines[k])])

Min(a, b) == IF a <= b THEN a ELSE b

\* the captures try_parse_function works on: those of function_regex, or
\* else those of method_regex
RegexCaptures(line) ==
    IF FunctionRegex(line).matched THEN FunctionRegex(line) ELSE MethodRegex(line)

\* PHPParser::try_parse_function once the signature line was matched and
\* find_function_end has run: kind "some", "none" or "panic"
TryParseWith(lines, start, captures, end) ==
    IF ~captures.matched THEN [kind |-> "none", func |-> Function("", 0, 0, 0, 0)]
    ELSE IF end.panic THEN [kind |-> "panic", func |-> Function("", 0, 0, 0, 0)]
    ELSE IF ~end.found THEN [kind |-> "none", func |-> Function("", 0, 0, 0, 0)]
    ELSE [kind |-> "some",
          func |-> Function(captures.name, start + 1, end.end_line + 1,
                            PhpCalculateComplexity(
                                SubSeq(lines, start + 1,
                                       Min(end.end_line, Len(lines) - 1) + 1)),
                            CountParameters(captures.params_str))]

\* PHPParser::try_parse_function
TryParseFunction(lines, start, overflow_checks) ==
    TryParseWith(lines, start, RegexCaptures(lines[start + 1]),
                 FindFunctionEnd(lines, start, overflow_checks))

\* usize::saturating_sub
SaturatingSub(a, b) == IF a >= b THEN a - b ELSE 0

\* the local variables of detect_functions before the loop; status is "run",
\* "done" or "panic"
PhpScanInit(lines) ==
    [i |-> 0, functions |-> <<>>, status |-> IF Len(lines) = 0 THEN "done" ELSE "run"]

\* the body of the while loop of detect_functions, given what
\* try_parse_function returned
PhpScanAdvance(st, parsed, len) ==
    IF parsed.kind = "panic" THEN [st EXCEPT !.status = "panic"]
    ELSE IF parsed.kind = "some"
    THEN [i |-> SaturatingSub(parsed.func.end_line, 1),
          functions |-> Append(st.functions, parsed.func),
          status |-> IF SaturatingSub(parsed.func.end_line, 1) < len THEN "run" ELSE "done"]
    ELSE [i |-> st.i + 1, functions |-> st.functions,
          status |-> IF st.i + 1 < len THEN "run" ELSE "done"]

\* one iteration of the while loop of detect_functions
PhpScanStep(st, lines, overflow_checks) ==
    PhpScanAdvance(st, TryParseFunction(lines, st.i, overflow_checks), Len(lines))

\* detect_functions run to its end: status "done" or "panic", or "hang" when
\* an iteration leaves i where it was, so that the loop repeats it for ever
RECURSIVE PhpScanFrom(_, _, _)
PhpScanOn(st, next, lines, overflow_checks) ==
    IF next.status = "run" /\ next.i = st.i THEN [next EXCEPT !.status = "hang"]
    ELSE PhpScanFrom(next, lines, overflow_checks)

PhpScanFrom(st, lines, overflow_checks) ==
    IF st.status # "run" THEN st
    ELSE PhpScanOn(st, PhpScanStep(st, lines, overflow_checks), lines, overflow_checks)

PhpDetectFunctions(lines, overflow_checks) ==
    PhpScanFrom(PhpScanInit(lines), lines, overflow_checks)

\* PHPParser::is_single_line_comment
IsSingleLineComment(line) == StartsWith(line, "//") \/ StartsWith(line, "#")

\* PHPParser::count_comment_lines; a block and a documentation comment are
\* counted alike, so one flag stands for both
RECURSIVE PhpCountCommentLines(_, _)
PhpCountCommentLines(lines, in_comment) ==
    IF Len(lines) = 0 THEN 0
    ELSE LET trimmed == Trim(lines[1])
         IN  IF in_comment
             THEN 1 + PhpCountCommentLines(Tail(lines), ~Contains(trimmed, "*/"))
             ELSE IF IsSingleLineComment(trimmed)
             THEN 1 + PhpCountCommentLines(Tail(lines), FALSE)
             ELSE IF StartsWith(trimmed, "/*")
             THEN 1 + PhpCountCommentLines(Tail(lines), ~Contains(trimmed, "*/"))
             ELSE PhpCountCommentLines(Tail(lines), FALSE)

\* PHPParser::parse after detect_functions ended in scan state: status "ok",
\* "panic" or "hang"
PhpParseOf(scan, lines) ==
    IF scan.status = "done"
    THEN [status |-> "ok",
          result |-> BaseParseResult(scan.functions, PhpCountCommentLines(lines, FALSE),
                                     Len(lines), "PHP")]
    ELSE [status |-> scan.status, result |-> BaseParseResult(<<>>, 0, 0, "PHP")]

PhpParse(lines, overflow_checks) == PhpParseOf(PhpDetectFunctions(lines, overflow_checks), lines)

(***************************************************************************)
(* Regular expressions (regex crate): leftmost-first search with capture   *)
(* groups, as Regex::captures and Regex::is_match perform it               *)
(***************************************************************************)
\* syntax of the expressions
AnyOf(set) == [op |-> "set", set |-> set]

NoneOf(set) == [op |-> "not", set |-> set]

Cat(parts) == [op |-> "cat", of |-> parts]

Alt(parts) == [op |-> "alt", of |-> parts]

Star(r) == [op |-> "star", of |-> <<r>>]

Plus(r) == Cat(<<r, Star(r)>>)

Opt(r) == Alt(<<r, Cat(<<>>)>>)

Group(k, r) == [op |-> "grp", k |-> k, of |-> <<r>>]

Bol == [op |-> "bol"]

\* a literal text
Lit(text) == [op |-> "lit", text |-> text]

\* [set]* and [set]+, [^set]*: at least min characters of the class
Many(set) == [op |-> "many", set |-> set, negated |-> FALSE, min |-> 0]

Many1(set) == [op |-> "many", set |-> set, negated |-> FALSE, min |-> 1]

ManyNot(set) == [op |-> "many", set |-> set, negated |-> TRUE, min |-> 0]

\* the classes \s, \w, [a-zA-Z_], [a-zA-Z0-9_] on ASCII text
SpaceChars == {" ", "\t", "\r", "\n"}

WordChars == UpperChars \cup LowerChars \cup Digits \cup {"_"}

NameStart == UpperChars \cup LowerChars \cup {"_"}

Ws == Many(SpaceChars)

Ws1 == Many1(SpaceChars)

\* [a-zA-Z_][a-zA-Z0-9_]*
Identifier == Cat(<<AnyOf(NameStart), Many(WordChars)>>)

\* the position after the longest run of characters of the class from i on
RunEnd(r, s, i) ==
    CHOOSE j \in i..(Len(s) + 1) :
        /\ \A k \in i..(j - 1) : (CharAt(s, k) \in r.set) # r.negated
        /\ j = Len(s) + 1 \/ (CharAt(s, j) \in r.set) = r.negated

\* the matches of a run that may end anywhere from last down to i + min
RunMatches(r, i, last, caps) ==
    [k \in 1..(last - i - r.min + 1) |-> [at |-> last - k + 1, caps |-> caps]]

\* the capture groups of a pattern: no pattern of the parsers has more
MaxGroups == 3

NoCaps == [k \in 1..MaxGroups |-> <<0, 0>>]

\* the matches of r that start at position i of s, in the order of
\* preference of a backtracking search (greedy repetitions, alternatives
\* from left to right); each is the position after the match and the spans
\* of the capture groups
RECURSIVE RegexFrom(_, _, _, _)
RECURSIVE RegexCat(_, _, _, _)
RECURSIVE RegexMore(_, _, _, _)
RegexFrom(r, s, i, caps) ==
    CASE r.op = "set" ->
             IF i <= Len(s) /\ CharAt(s, i) \in r.set
             THEN <<[at |-> i + 1, caps |-> caps]>> ELSE <<>>
      [] r.op = "not" ->
             IF i <= Len(s) /\ CharAt(s, i) \notin r.set
             THEN <<[at |-> i + 1, caps |-> caps]>> ELSE <<>>
      [] r.op = "lit" ->
             IF i + Len(r.text) - 1 <= Len(s) /\ SubSeq(s, i, i + Len(r.text) - 1) = r.text
             THEN <<[at |-> i + Len(r.text), caps |-> caps]>> ELSE <<>>
      [] r.op = "many" -> RunMatches(r, i, RunEnd(r, s, i), caps)
      [] r.op = "bol" ->
             IF i = 1 THEN <<[at |-> i, caps |-> caps]>> ELSE <<>>
      [] r.op = "cat" -> RegexCat(r.of, 1, s, <<[at |-> i, caps |-> caps]>>)
      [] r.op = "alt" ->
             Flatten([k \in 1..Len(r.of) |-> RegexFrom(r.of[k], s, i, caps)])
      [] r.op = "star" ->
             RegexMore(r, s, i, RegexFrom(r.of[1], s, i, caps))
                 \o <<[at |-> i, caps |-> caps]>>
      [] r.op = "grp" ->
             RegexMore(r, s, i, RegexFrom(r.of[1], s, i, caps))

\* the parts of a concatenation from the n-th on, after each of the matches
\* found for the parts before
RegexCat(parts, n, s, found) ==
    IF n > Len(parts) THEN found
    ELSE RegexCat(parts, n + 1, s,
                  Flatten([k \in 1..Len(found) |->
                              RegexFrom(parts[n], s, found[k].at, found[k].caps)]))

\* for a repetition: further rounds after each non-empty round;
\* for a group: its span recorded in each match of its content
RegexMore(r, s, i, once) ==
    IF r.op = "star"
    THEN Flatten([k \in 1..Len(once) |->
                     IF once[k].at > i THEN RegexFrom(r, s, once[k].at, once[k].caps)
                     ELSE <<>>])
    ELSE [k \in 1..Len(once) |->
             [at |-> once[k].at, caps |-> [once[k].caps EXCEPT ![r.k] = <<i, once[k].at>>]]]

NoMatch == [found |-> FALSE, start |-> 0, at |-> 0, caps |-> NoCaps]

\* the preferred match among those that start at position i
MatchAt(matches, i) ==
    [found |-> TRUE, start |-> i, at |-> matches[1].at, caps |-> matches[1].caps]

\* the search for the leftmost match: starts holds the positions at which
\* the expression matches
Leftmost(r, s, starts) ==
    IF starts = {} THEN NoMatch
    ELSE MatchAt(RegexFrom(r, s, CHOOSE i \in starts : \A j \in starts : i <= j, NoCaps),
                 CHOOSE i \in starts : \A j \in starts : i <= j)

RegexSearch(r, s) ==
    Leftmost(r, s, {i \in 1..(Len(s) + 1) : Len(RegexFrom(r, s, i, NoCaps)) > 0})

\* Regex::captures(s)
Captures(r, s) == RegexSearch(r, s)

\* Regex::is_match(s)
IsMatch(r, s) == Captures(r, s).found

\* Captures::get(k): whether the group took part, and its text
HasGroup(m, k) == m.caps[k][1] > 0

GroupText(s, m, k) == SubSeq(s, m.caps[k][1], m.caps[k][2] - 1)

(***************************************************************************)
(* What the line-based parsers share: the scan for comment lines, the      *)
(* scan for the closing brace and the count of complexity patterns         *)
(***************************************************************************)
\* count_comment_lines counting a line with the single-line prefix once more
\* when it is read in a block comment
CommentNextTwice(st, trimmed, prefix, opening, closing) ==
    IF st.in_block_comment
    THEN [count |-> st.count + (IF prefix # "" /\ StartsWith(trimmed, prefix) THEN 2 ELSE 1),
          in_block_comment |-> ~Contains(trimmed, closing)]
    ELSE IF prefix # "" /\ StartsWith(trimmed, prefix)
    THEN [count |-> st.count + 1, in_block_comment |-> FALSE]
    ELSE IF StartsWith(trimmed, opening)
    THEN [count |-> st.count + 1, in_block_comment |-> ~Contains(trimmed, closing)]
    ELSE st

\* the state of count_comment_lines after one more line: in a block comment
\* the line counts and the comment ends where the line holds the closing
\* delimiter; otherwise a line counts when it starts with the single-line
\* prefix or with the opening delimiter
CommentNext(st, trimmed, prefix, opening, closing) ==
    IF st.in_block_comment
    THEN [count |-> st.count + 1, in_block_comment |-> ~Contains(trimmed, closing)]
    ELSE IF prefix # "" /\ StartsWith(trimmed, prefix)
    THEN [count |-> st.count + 1, in_block_comment |-> FALSE]
    ELSE IF StartsWith(trimmed, opening)
    THEN [count |-> st.count + 1, in_block_comment |-> ~Contains(trimmed, closing)]
    ELSE st

\* the state of the scan after the first n lines
RECURSIVE CommentScan(_, _, _, _, _)
CommentScan(lines, n, prefix, opening, closing) ==
    IF n = 0 THEN [count |-> 0, in_block_comment |-> FALSE]
    ELSE CommentNext(CommentScan(lines, n - 1, prefix, opening, closing),
                     Trim(lines[n]), prefix, opening, closing)

\* count_comment_lines of CParser
CCountCommentLines(lines) == CommentScan(lines, Len(lines), "//", "/*", "*/").count

\* the position of the first brace of the line at or after character j,
\* 0 when there is none
NextBrace(line, j) ==
    IF \E k \in j..Len(line) : CharAt(line, k) \in {"{", "}"}
    THEN CHOOSE k \in j..Len(line) :
             /\ CharAt(line, k) \in {"{", "}"}
             /\ \A h \in j..(k - 1) : CharAt(line, h) \notin {"{", "}"}
    ELSE 0

\* the loop of find_function_end from character j of line i (zero based):
\* the index of the line on which the count returns to zero after an
\* opening brace was seen, else the index of the last line; the characters
\* that are no braces change nothing and are passed over
RECURSIVE BraceEnd(_, _, _, _, _)
RECURSIVE BraceStep(_, _, _, _, _)
BraceEnd(lines, i, j, brace_count, found_first) ==
    IF i >= Len(lines) THEN Len(lines) - 1
    ELSE BraceStep(lines, i, NextBrace(lines[i + 1], j), brace_count, found_first)

\* the arms of the match on the brace at character k
BraceStep(lines, i, k, brace_count, found_first) ==
    IF k = 0 THEN BraceEnd(lines, i + 1, 1, brace_count, found_first)
    ELSE IF CharAt(lines[i + 1], k) = "{"
    THEN BraceEnd(lines, i, k + 1, brace_count + 1, TRUE)
    ELSE IF found_first /\ brace_count - 1 = 0 THEN i
    ELSE BraceEnd(lines, i, k + 1, brace_count - 1, found_first)

\* the sum over the patterns of line.matches(pattern).count()
LineMatches(line, patterns) ==
    SumSeq([k \in 1..Len(patterns) |-> CountMatches(line, patterns[k])])

\* calculate_complexity on the lines first..last (counted from one)
SpanComplexity(lines, first, last, patterns) ==
    1 + SumSeq([k \in 1..(last - first + 1) |-> LineMatches(lines[first + k - 1], patterns)])

\* the parameter count taken from the text between the parentheses
SplitParams(params_str) ==
    IF Trim(params_str) = "" THEN 0 ELSE Len(Split(params_str, ","))

\* Function { name, start_line: i + 1, end_line: end_line + 1, complexity,
\* parameters } for the match on line i + 1 = n
UnitAt(lines, n, name, parameters, end_line, patterns) ==
    Function(name, n, end_line + 1, SpanComplexity(lines, n, end_line + 1, patterns),
             parameters)

(***************************************************************************)
(* parser/c.rs                                                             *)
(***************************************************************************)
CFuncRegex ==
    Cat(<<Plus(Group(1, Cat(<<Many1(WordChars \cup {"*"}), Ws1>>))),
          Group(2, Identifier), Ws, Lit("("), Group(3, ManyNot({";"})), Lit(")"),
          Ws, Lit("{")>>)

CPatterns ==
    <<" if ", " else ", " for ", " while ", " do ", " switch ", " case ", " && ", " || ",
      " ? ">>

\* find_function_end: the count starts at one on the line after the signature
CFindFunctionEnd(lines, start) == BraceEnd(lines, start + 1, 1, 1, TRUE)

CParams(params_str) ==
    IF Trim(params_str) = "" \/ Trim(params_str) = "void" THEN 0
    ELSE Len(Split(params_str, ","))

\* the body of the loop of detect_functions for a line the regex matched
CUnit(lines, n, m) ==
    IF m.found
    THEN <<UnitAt(lines, n, GroupText(lines[n], m, 2), CParams(GroupText(lines[n], m, 3)),
                  CFindFunctionEnd(lines, n - 1), CPatterns)>>
    ELSE <<>>

CTryLine(lines, n, trimmed) ==
    IF EndsWith(trimmed, "{") /\ ~StartsWith(trimmed, "{")
    THEN CUnit(lines, n, Captures(CFuncRegex, lines[n]))
    ELSE <<>>

CDetectFunctions(lines) ==
    Flatten([n \in 1..Len(lines) |-> CTryLine(lines, n, Trim(lines[n]))])

\* CParser::parse; language is the one detected from the file name
CParse(lines, language) ==
    BaseParseResult(CDetectFunctions(lines), CCountCommentLines(lines), Len(lines), language)

(***************************************************************************)
(* parser/go.rs                                                            *)
(***************************************************************************)
GoFuncRegex ==
    Cat(<<Lit("func"), Ws1,
          Opt(Cat(<<Lit("("), ManyNot({")"}), Lit(")"), Ws1>>)),
          Group(1, Identifier), Ws, Lit("("), Group(2, ManyNot({")"})), Lit(")")>>)

GoPatterns == <<" if ", " else ", " for ", " switch ", " case ", " && ", " || ">>

GoCountCommentLines(lines) == CommentScan(lines, Len(lines), "//", "/*", "*/").count

\* find_function_end: the count starts at zero on the signature line
GoFindFunctionEnd(lines, start) == BraceEnd(lines, start, 1, 0, FALSE)

GoUnit(lines, n, m) ==
    IF m.found
    THEN <<UnitAt(lines, n, GroupText(lines[n], m, 1),
                  SplitParams(GroupText(lines[n], m, 2)),
                  GoFindFunctionEnd(lines, n - 1), GoPatterns)>>
    ELSE <<>>

GoDetectFunctions(lines) ==
    Flatten([n \in 1..Len(lines) |-> GoUnit(lines, n, Captures(GoFuncRegex, lines[n]))])

GoParse(lines) ==
    BaseParseResult(GoDetectFunctions(lines), GoCountCommentLines(lines), Len(lines), "Go")

(***************************************************************************)
(* parser/java.rs                                                          *)
(***************************************************************************)
JavaMethodRegex ==
    Cat(<<Plus(Alt(<<Lit("public"), Lit("private"), Lit("protected"), Lit("static"),
                     AnyOf(SpaceChars)>>)),
          Many1(WordChars \cup {"<", ">", "[", "]"}), Ws1,
          Group(1, Many1(WordChars)), Ws, Lit("("),
          Group(2, ManyNot({")"})), Lit(")"), Ws,
          Alt(<<Lit("{"), Lit("throws")>>)>>)

JavaPatterns ==
    <<" if ", " else ", " for ", " while ", " switch ", " case ", " catch ", " && ", " || ">>

\* count_comment_lines: "/**" and "/*" open a comment alike
JavaCountCommentLines(lines) == CommentScan(lines, Len(lines), "//", "/*", "*/").count

JavaFindMethodEnd(lines, start) == BraceEnd(lines, start, 1, 0, FALSE)

JavaUnit(lines, n, m) ==
    IF m.found
    THEN <<UnitAt(lines, n, GroupText(lines[n], m, 1),
                  SplitParams(GroupText(lines[n], m, 2)),
                  JavaFindMethodEnd(lines, n - 1), JavaPatterns)>>
    ELSE <<>>

JavaDetectFunctions(lines) ==
    Flatten([n \in 1..Len(lines) |-> JavaUnit(lines, n, Captures(JavaMethodRegex, lines[n]))])

JavaParse(lines) ==
    BaseParseResult(JavaDetectFunctions(lines), JavaCountCommentLines(lines), Len(lines),
                    "Java")

(***************************************************************************)
(* parser/csharp.rs                                                        *)
(***************************************************************************)
CSharpModifiers ==
    <<Lit("public"), Lit("private"), Lit("protected"), Lit("internal"), Lit("static"),
      Lit("virtual"), Lit("override"), Lit("abstract"), Lit("sealed"), Lit("async")>>

CSharpMethodRegex ==
    Cat(<<Bol, Ws, Star(Cat(<<Alt(CSharpModifiers), Ws1>>)),
          Group(1, Cat(<<AnyOf(NameStart),
                         Many(WordChars \cup {"<", ">", "[", "]"}),
                         Opt(Lit("?"))>>)),
          Ws1, Group(2, Identifier), Ws, Lit("("), Group(3, ManyNot({")"})), Lit(")"),
          Ws, Alt(<<Lit("{"), Lit("=>")>>)>>)

CSharpPatterns ==
    <<" if ", " else ", " for ", " foreach ", " while ", " do ", " switch ", " case ",
      " catch ", " && ", " || ", " ?? ", " ? ">>

\* count_comment_lines: a line starting with "///" is taken by the test for
\* "//" before the test for "///" is reached, so in_xml_doc is never set
CSharpCountCommentLines(lines) == CommentScan(lines, Len(lines), "//", "/*", "*/").count

\* the first line at or after line i (zero based) that holds a semicolon
RECURSIVE FirstSemicolon(_, _, _)
FirstSemicolon(lines, i, start) ==
    IF i >= Len(lines) THEN start
    ELSE IF Contains(lines[i + 1], ";") THEN i
    ELSE FirstSemicolon(lines, i + 1, start)

CSharpFindMethodEnd(lines, start) ==
    IF Contains(lines[start + 1], "=>") THEN FirstSemicolon(lines, start, start)
    ELSE BraceEnd(lines, start, 1, 0, FALSE)

CSharpUnit(lines, n, m) ==
    IF m.found
    THEN <<UnitAt(lines, n, GroupText(lines[n], m, 2),
                  SplitParams(GroupText(lines[n], m, 3)),
                  CSharpFindMethodEnd(lines, n - 1), CSharpPatterns)>>
    ELSE <<>>

CSharpDetectFunctions(lines) ==
    Flatten([n \in 1..Len(lines) |->
                CSharpUnit(lines, n, Captures(CSharpMethodRegex, lines[n]))])

CSharpParse(lines) ==
    BaseParseResult(CSharpDetectFunctions(lines), CSharpCountCommentLines(lines),
                    Len(lines), "CSharp")

(***************************************************************************)
(* parser/javascript.rs, parser/typescript.rs                              *)
(***************************************************************************)
\* [a-zA-Z_$][a-zA-Z0-9_$]*
JsIdentifier == Cat(<<AnyOf(NameStart \cup {"$"}), Many(WordChars \cup {"$"})>>)

JsFunctionRegex == Cat(<<Lit("function"), Ws1, Group(1, JsIdentifier), Ws, Lit("(")>>)

JsArrowRegexes ==
    <<Cat(<<Alt(<<Lit("const"), Lit("let"), Lit("var")>>), Ws1, Group(1, JsIdentifier), Ws,
            Lit("="), Ws, Lit("("), ManyNot({")"}), Lit(")"), Ws, Lit("=>")>>),
      Cat(<<Group(1, JsIdentifier), Ws, Lit("="), Ws, Lit("function"), Ws, Lit("(")>>)>>

JsMethodRegex ==
    Cat(<<Bol, Ws, Group(1, JsIdentifier), Ws, Lit("("), ManyNot({")"}), Lit(")"), Ws,
          Lit("{")>>)

\* calculate_complexity with the operators between two spaces as well
JsPatternsSpaced ==
    <<" if ", " else ", " for ", " while ", " switch ", " case ", " catch ",
      " && ", " || ", " ? ">>

\* calculate_complexity: the keywords between two spaces, the operators as
\* they stand
JsPatterns ==
    <<" if ", " else ", " for ", " while ", " switch ", " case ", " catch ",
      "&&", "||", "?">>

JsCountCommentLines(lines) == CommentScan(lines, Len(lines), "//", "/*", "*/").count

JsFindFunctionEnd(lines, start) == BraceEnd(lines, start, 1, 0, FALSE)

JsUnit(lines, n, m, skip) ==
    IF m.found /\ GroupText(lines[n], m, 1) \notin skip
    THEN <<UnitAt(lines, n, GroupText(lines[n], m, 1), 0, JsFindFunctionEnd(lines, n - 1),
                  JsPatterns)>>
    ELSE <<>>

\* detect_regular_functions, and the inner loop of detect_arrow_functions
JsDetectWith(lines, regex) ==
    Flatten([n \in 1..Len(lines) |-> JsUnit(lines, n, Captures(regex, lines[n]), {})])

JsDetectArrowFunctions(lines) ==
    Flatten([k \in 1..Len(JsArrowRegexes) |-> JsDetectWith(lines, JsArrowRegexes[k])])

\* the loop of detect_class_methods from line n on
RECURSIVE JsMethodsFrom(_, _, _)
JsMethodsFrom(lines, n, in_class) ==
    IF n > Len(lines) THEN <<>>
    ELSE IF Contains(lines[n], "class ") /\ Contains(lines[n], "{")
    THEN JsMethodsFrom(lines, n + 1, TRUE)
    ELSE IF in_class /\ Trim(lines[n]) = "}"
    THEN JsMethodsFrom(lines, n + 1, FALSE)
    ELSE IF in_class
    THEN JsUnit(lines, n, Captures(JsMethodRegex, lines[n]), {"constructor"})
             \o JsMethodsFrom(lines, n + 1, TRUE)
    ELSE JsMethodsFrom(lines, n + 1, FALSE)

JsDetectClassMethods(lines) == JsMethodsFrom(lines, 1, FALSE)

\* the stable sort_by_key(start_line)
SortByStartLine(functions, last) ==
    Flatten([n \in 1..last |-> SelectSeq(functions, LAMBDA f : f.start_line = n)])

JsDetectFunctions(lines) ==
    SortByStartLine(JsDetectWith(lines, JsFunctionRegex) \o JsDetectArrowFunctions(lines)
                        \o JsDetectClassMethods(lines),
                    Len(lines))

\* JavaScriptParser::parse, and TypeScriptParser::parse, which runs it and
\* replaces the language
JsParse(lines, language) ==
    BaseParseResult(JsDetectFunctions(lines), JsCountCommentLines(lines), Len(lines),
                    language)

(***************************************************************************)
(* parser/python.rs                                                        *)
(***************************************************************************)
PyFuncRegex ==
    Cat(<<Bol, Ws, Lit("def"), Ws1, Group(1, Identifier), Ws, Lit("("),
          Group(2, ManyNot({")"})), Lit(")")>>)

PyPatterns ==
    <<" if ", " elif ", " else:", " for ", " while ", " except ", " finally:", " and ",
      " or ">>

DocDelimiters == <<"\"\"\"", "'''">>

\* a docstring opened on this line with the delimiter
PyDocOpen(st, trimmed, delimiter) ==
    [count |-> st.count + 1, doc_delimiter |-> delimiter,
     in_doc_string |-> ~(CountMatches(trimmed, delimiter) > 1)]

\* the state of count_comment_lines after one more line
PyCommentNext(st, trimmed) ==
    IF st.in_doc_string
    THEN [st EXCEPT !.count = @ + 1,
                    !.in_doc_string = ~Contains(trimmed, st.doc_delimiter)]
    ELSE IF StartsWith(trimmed, "#") THEN [st EXCEPT !.count = @ + 1]
    ELSE IF StartsWith(trimmed, DocDelimiters[1]) THEN PyDocOpen(st, trimmed, DocDelimiters[1])
    ELSE IF StartsWith(trimmed, DocDelimiters[2]) THEN PyDocOpen(st, trimmed, DocDelimiters[2])
    ELSE st

RECURSIVE PyCommentScan(_, _)
PyCommentScan(lines, n) ==
    IF n = 0 THEN [count |-> 0, in_doc_string |-> FALSE, doc_delimiter |-> ""]
    ELSE PyCommentNext(PyCommentScan(lines, n - 1), Trim(lines[n]))

PyCountCommentLines(lines) == PyCommentScan(lines, Len(lines)).count

\* get_indent_level
RECURSIVE GetIndentLevel(_)
GetIndentLevel(line) ==
    IF Len(line) = 0 THEN 0
    ELSE IF CharAt(line, 1) = " " THEN 1 + GetIndentLevel(SubSeq(line, 2, Len(line)))
    ELSE IF CharAt(line, 1) = "\t" THEN 4 + GetIndentLevel(SubSeq(line, 2, Len(line)))
    ELSE 0

\* the test with a strict comparison of the indentation
PyDedentStrict(line, trimmed, base_indent) ==
    /\ trimmed # ""
    /\ ~StartsWith(trimmed, "#")
    /\ GetIndentLevel(line) < base_indent

\* the test of the loop of find_function_end on a line
PyDedent(line, trimmed, base_indent) ==
    /\ trimmed # ""
    /\ ~StartsWith(trimmed, "#")
    /\ GetIndentLevel(line) <= base_indent

\* the loop of find_function_end from line i (zero based)
RECURSIVE PyEndFrom(_, _, _)
PyEndFrom(lines, i, base_indent) ==
    IF i >= Len(lines) THEN Len(lines) - 1
    ELSE IF PyDedent(lines[i + 1], Trim(lines[i + 1]), base_indent) THEN i - 1
    ELSE PyEndFrom(lines, i + 1, base_indent)

PyFindFunctionEnd(lines, start) ==
    IF start >= Len(lines) THEN Len(lines) - 1
    ELSE PyEndFrom(lines, start + 1, GetIndentLevel(lines[start + 1]))

PyUnit(lines, n, m) ==
    IF m.found
    THEN <<UnitAt(lines, n, GroupText(lines[n], m, 1),
                  SplitParams(GroupText(lines[n], m, 2)),
                  PyFindFunctionEnd(lines, n - 1), PyPatterns)>>
    ELSE <<>>

PyDetectFunctions(lines) ==
    Flatten([n \in 1..Len(lines) |-> PyUnit(lines, n, Captures(PyFuncRegex, lines[n]))])

PyParse(lines) ==
    BaseParseResult(PyDetectFunctions(lines), PyCountCommentLines(lines), Len(lines),
                    "Python")

(***************************************************************************)
(* parser/html.rs                                                          *)
(***************************************************************************)
HtmlCountCommentLines(lines) == CommentScan(lines, Len(lines), "", "<!--", "-->").count

\* calculate_js_complexity
HtmlJsPatterns == <<" if ", " for ", " while ", " switch ", " case ", " && ", " || ", " ? ">>

\* calculate_css_complexity
HtmlCssPatterns == <<" ", ">", "+", "~", ".", "#", "[", ":">>

HtmlFormPatterns == <<"<input", "<select", "<textarea", "<button">>

HtmlElementPatterns == <<"<div", "<span", "<table", "<ul", "<ol">>

\* the loop of detect_script_blocks and of detect_style_blocks from line
\* i (zero based) on: tag is "script" or "style"
RECURSIVE HtmlTagBlocks(_, _, _, _, _, _, _)
HtmlTagBlocks(lines, i, in_block, block_start, blocks, tag, patterns) ==
    IF i >= Len(lines) THEN blocks
    ELSE IF Contains(lines[i + 1], "<" \o tag) /\ ~Contains(lines[i + 1], "</" \o tag \o ">")
    THEN HtmlTagBlocks(lines, i + 1, TRUE, i, blocks, tag, patterns)
    ELSE IF in_block /\ Contains(lines[i + 1], "</" \o tag \o ">")
    THEN HtmlTagBlocks(lines, i + 1, FALSE, block_start,
                       Append(blocks,
                              Function(tag \o "_block_" \o ToString(Len(blocks) + 1),
                                       block_start + 1, i + 1,
                                       SpanComplexity(lines, block_start + 1, i + 1, patterns),
                                       0)),
                       tag, patterns)
    ELSE HtmlTagBlocks(lines, i + 1, in_block, block_start, blocks, tag, patterns)

\* the loop of detect_form_blocks from line i (zero based) on
RECURSIVE HtmlFormBlocks(_, _, _, _, _)
HtmlFormBlocks(lines, i, in_form, form_start, blocks) ==
    IF i >= Len(lines) THEN blocks
    ELSE IF Contains(lines[i + 1], "<form")
    THEN HtmlFormBlocks(lines, i + 1, TRUE, i, blocks)
    ELSE IF in_form /\ Contains(lines[i + 1], "</form>")
    THEN HtmlFormBlocks(lines, i + 1, FALSE, form_start,
                        Append(blocks,
                               Function("form_block_" \o ToString(Len(blocks) + 1),
                                        form_start + 1, i + 1,
                                        SpanComplexity(lines, form_start + 2, i + 1,
                                                       HtmlFormPatterns),
                                        0)))
    ELSE HtmlFormBlocks(lines, i + 1, in_form, form_start, blocks)

\* detect_complex_elements without its threshold
HtmlStructureAlways(lines, total_complexity) ==
    <<Function("html_structure", 1, Len(lines), total_complexity \div 10, 0)>>

\* detect_complex_elements, total_complexity given
HtmlStructure(lines, total_complexity) ==
    IF total_complexity > 50
    THEN <<Function("html_structure", 1, Len(lines), total_complexity \div 10, 0)>>
    ELSE <<>>

HtmlDetectComplexElements(lines) ==
    HtmlStructure(lines, SpanComplexity(lines, 1, Len(lines), HtmlElementPatterns))

\* detect_html_blocks
HtmlDetectBlocks(lines) ==
    HtmlTagBlocks(lines, 0, FALSE, 0, <<>>, "script", HtmlJsPatterns)
        \o HtmlTagBlocks(lines, 0, FALSE, 0, <<>>, "style", HtmlCssPatterns)
        \o HtmlFormBlocks(lines, 0, FALSE, 0, <<>>)
        \o HtmlDetectComplexElements(lines)

HtmlParse(lines) ==
    BaseParseResult(HtmlDetectBlocks(lines), HtmlCountCommentLines(lines), Len(lines), "HTML")

(***************************************************************************)
(* parser/generic.rs, for a language no other parser is registered for     *)
(***************************************************************************)
GenericFunctionRegex ==
    Cat(<<Alt(<<Lit("function"), Lit("def"), Lit("void"), Lit("int"), Lit("bool"),
                Lit("string"), Lit("double"), Lit("float")>>),
          Ws1, Group(1, Identifier), Ws, Lit("(")>>)

\* calculate_complexity: keywords and operators as they stand
GenericPatterns ==
    <<"if", "else", "for", "while", "switch", "case", "catch", "match", "loop", "elif",
      "except", "finally", "&&", "||", "?">>

\* count_c_style_comments
GenericCountCommentLines(lines) == CommentScan(lines, Len(lines), "//", "/*", "*/").count

\* find_brace_function_end
GenericFindFunctionEnd(lines, start) == BraceEnd(lines, start, 1, 0, FALSE)

\* extract_function_info and the body of the loop of detect_functions
GenericUnit(lines, n, m) ==
    IF m.found
    THEN <<UnitAt(lines, n,
                  IF HasGroup(m, 1) THEN GroupText(lines[n], m, 1) ELSE "anonymous", 0,
                  GenericFindFunctionEnd(lines, n - 1), GenericPatterns)>>
    ELSE <<>>

GenericDetectFunctions(lines) ==
    Flatten([n \in 1..Len(lines) |->
                GenericUnit(lines, n, Captures(GenericFunctionRegex, lines[n]))])

GenericParse(lines) ==
    BaseParseResult(GenericDetectFunctions(lines), GenericCountCommentLines(lines),
                    Len(lines), "Unsupported")

(***************************************************************************)
(* analyzer/analyzer.rs and analyzer/result.rs: the orchestrator           *)
(***************************************************************************)
FileAnalysisData(path, metrics, issues, lines) ==
    [path |-> path, metrics |-> metrics, issues |-> issues, lines |-> lines]

FileAnalysisResult(file_path, score, issues) ==
    [file_path |-> file_path, file_score |-> score, issues |-> issues]

AnalysisResult(code_quality_score, metrics, files_analyzed, total_files, total_lines, is_empty) ==
    [code_quality_score |-> code_quality_score, metrics |-> metrics,
     files_analyzed |-> files_analyzed, total_files |-> total_files,
     total_lines |-> total_lines, is_empty |-> is_empty]

\* an empty result that is not marked empty
CreateUnmarkedEmptyResult == AnalysisResult(Zero, EmptyMap, <<>>, 0, 0, FALSE)

\* create_empty_result
CreateEmptyResult == AnalysisResult(Zero, EmptyMap, <<>>, 0, 0, TRUE)

\* create_single_file_result
CreateSingleFileResult(path, score, metrics, issues, lines) ==
    AnalysisResult(score, metrics, <<FileAnalysisResult(path, score, issues)>>, 1, lines,
                   FALSE)

\* the loop of aggregate_results that collects, for every metric name, the
\* results of the files in the order of file_results
AllMetrics(file_results) ==
    [name \in UNION {DOMAIN file_results[k].metrics : k \in 1..Len(file_results)} |->
        LET having == SelectSeq(file_results, LAMBDA data : name \in DOMAIN data.metrics)
        IN  [k \in 1..Len(having) |-> having[k].metrics[name]]]

\* the score of the first file where the average belongs
CalculateFirstMetrics(all_metrics) ==
    [name \in {k \in DOMAIN all_metrics : Len(all_metrics[k]) > 0} |->
        LET results == all_metrics[name]
        IN  MetricResult(results[1].score, results[1].weight, results[1].description, <<>>)]

\* the sum of the scores where the average belongs
CalculateSumMetrics(all_metrics) ==
    [name \in {k \in DOMAIN all_metrics : Len(all_metrics[k]) > 0} |->
        LET results == all_metrics[name]
        IN  MetricResult(QSum([k \in 1..Len(results) |-> results[k].score]),
                         results[1].weight, results[1].description, <<>>)]

\* calculate_average_metrics
CalculateAverageMetrics(all_metrics) ==
    [name \in {k \in DOMAIN all_metrics : Len(all_metrics[k]) > 0} |->
        LET results == all_metrics[name]
            avg_score == QDiv(QSum([k \in 1..Len(results) |-> results[k].score]),
                              QInt(Len(results)))
        IN  MetricResult(avg_score, results[1].weight, results[1].description, <<>>)]

\* aggregate_results
AggregateResults(file_results) ==
    LET files_analyzed ==
            [k \in 1..Len(file_results) |->
                FileAnalysisResult(file_results[k].path,
                                   CalculateScore(file_results[k].metrics),
                                   file_results[k].issues)]
        total_lines == SumSeq([k \in 1..Len(file_results) |-> file_results[k].lines])
        aggregated_metrics == CalculateAverageMetrics(AllMetrics(file_results))
    IN  AnalysisResult(CalculateScore(aggregated_metrics), aggregated_metrics,
                       files_analyzed, Len(files_analyzed), total_lines, FALSE)

\* A file of the analysed tree: its path, the language of its extension,
\* whether fs::read_to_string succeeds on it, and its content as lines.  For
\* a language whose extractor is not part of this model, model is the
\* UnitModel that extractor returns for the content.
SourceFile(path, language, readable, lines, model) ==
    [path |-> path, language |-> language, readable |-> readable, lines |-> lines,
     model |-> model]

\* parse_file: create_parser_for_file and Parser::parse
ParseFile(file, overflow_checks) ==
    CASE file.language = "CSS" -> CssParse(file.lines, overflow_checks)
      [] file.language = "PHP" -> PhpParse(file.lines, overflow_checks)
      [] OTHER -> [status |-> "ok", result |-> file.model]

\* analyze_file_safe as it would be if a failed read gave an empty content
AnalyzeFileSafeLenient(file, parsed, metrics, key_order) ==
    [kind |-> "ok", error |-> "",
     data |-> FileAnalysisData(file.path, metrics, CollectIssues(metrics, key_order),
                               parsed.result.total_lines)]

\* analyze_file_safe once the file is parsed and its metrics are computed:
\* kind "ok" with the file's data, "err" for a read error, "panic" or "hang"
\* when the extractor unwinds or does not return
AnalyzeFileSafeWith(file, parsed, metrics, key_order) ==
    IF ~file.readable
    THEN [kind |-> "err", error |-> "Io", data |-> FileAnalysisData(file.path, EmptyMap, <<>>, 0)]
    ELSE IF parsed.status # "ok"
    THEN [kind |-> parsed.status, error |-> "",
          data |-> FileAnalysisData(file.path, EmptyMap, <<>>, 0)]
    ELSE [kind |-> "ok", error |-> "",
          data |-> FileAnalysisData(file.path, metrics, CollectIssues(metrics, key_order),
                                    parsed.result.total_lines)]

\* the outcomes for every order in which collect_issues may walk the map
IssueOrderOutcomes(file, parsed, metrics) ==
    {AnalyzeFileSafeWith(file, parsed, metrics, key_order) :
        key_order \in IssueOrders(metrics)}

\* and for every order in which the duplication metric may walk its groups
GroupOrderOutcomes(file, parsed) ==
    UNION {IssueOrderOutcomes(file, parsed,
                              AnalyzeMetrics(parsed.result, orders[1], orders[2])) :
           orders \in GroupOrders(parsed.result) \X NamingOrders(parsed.result)}

\* every outcome analyze_file_safe can have on a file
AnalyzeFileSafeOutcomes(file, overflow_checks) ==
    GroupOrderOutcomes(file, ParseFile(file, overflow_checks))

\* analyze_single_file: the same steps as analyze_file_safe, of outcome safe,
\* then calculate_score and create_single_file_result
AnalyzeSingleFile(safe, file) ==
        [kind |-> safe.kind, error |-> safe.error,
         result |-> IF safe.kind = "ok"
                    THEN CreateSingleFileResult(file.path,
                                                CalculateScore(safe.data.metrics),
                                                safe.data.metrics, safe.data.issues,
                                                safe.data.lines)
                    ELSE CreateEmptyResult]

(***************************************************************************)
(* Bounds and inputs                                                       *)
(***************************************************************************)
\* units of a unit model given to the metric engine
MaxUnits == 3

MaxCommentLines == 1

\* copies of one file in a directory whose averages are taken
MaxCopies == 2

\* unit shapes: name, complexity, parameters, number of lines
UnitShapes ==
    { <<"x", 1, 0, 5>>,
      <<"getUser", 4, 1, 15>>,
      <<"process1", 9, 3, 25>>,
      <<"process2", 9, 3, 25>>,
      <<"malloc_read", 7, 7, 45>>,
      <<"fetchResult", 16, 9, 125>>,
      <<"handle_v2", 21, 5, 75>>,
      <<"calculateTotalPrice", 4, 1, 15>>,
      <<"temp", 1, 0, 5>>,
      <<"xyz", 2, 2, 12>>,
      <<"parse", 3, 1, 8>>,
      <<"parse_v2", 13, 0, 15>>,
      <<"parse_v3", 13, 0, 15>> }

\* lines of a file given to an extractor
MaxLines == 3

\* functions the PHP scan is followed for
MaxDetected == 3

\* a selector of 17 three-byte characters: 51 bytes, with byte offset 47
\* inside a character
WideSelector == "%%%%%%%%%%%%%%%%%"

\* a selector of 51 one-byte characters
LongSelector == "div.aaaaaaaaaaaaaaaaaaaaaaaaaaaaaaaaaaaaaaaaaaaaaaa"

CssLineKinds ==
    { "a {", "  color: red;", "}", "}}", "}}}", "a:hover", "/* note */",
      "#id > .b { top: 0 }}", WideSelector \o " {}}", LongSelector \o " {}}",
      "a { top: 0 }" }

PhpLineKinds ==
    { "<?php", "// note", "function foo($a, $b) {", "  if ($a) { return 1; }", "}",
      "function f() {}", "function k() }", "abstract public function g($x);",
      "public static run() {", "}}" }

LineKinds(language) == IF language = "CSS" THEN CssLineKinds ELSE PhpLineKinds

\* lines of a file given to a line-based parser
MaxParseLines == 3

\* the languages whose parser is part of this model (RustParser is not)
ParseLanguages ==
    {"C", "CPlusPlus", "Go", "Java", "CSharp", "JavaScript", "TypeScript", "Python", "HTML",
     "CSS", "PHP", "Unsupported"}

BraceLanguages == {"C", "CPlusPlus", "Go", "Java", "CSharp", "JavaScript", "TypeScript"}

\* a line with twenty-five list elements
RECURSIVE Repeat(_, _)
Repeat(text, n) == IF n = 0 THEN "" ELSE text \o Repeat(text, n - 1)

HtmlDeepLine == Repeat("<ul", 25)

BraceLineKinds ==
    { "}", "  if (a&&b || c) {", "// note", "/* open", "/** doc", "end */", "x = 1; /* tail" }

\* the comment lines of PHP that PhpLineKinds does not hold
PhpCommentKinds == { "/** doc", " */", "# note" }

SignatureLines(language) ==
    CASE language \in {"C", "CPlusPlus"} -> <<"int f(int a) {", "int g(void) { if (a) {">>
      [] language = "Go" -> <<"func f(a int) {", "func (s *S) g() {">>
      [] language = "Java" -> <<"public int f(int a) {", "  } else if (b) {">>
      [] language = "CSharp" -> <<"public int F(int a) {", "int G() => 1;">>
      [] language \in {"JavaScript", "TypeScript"} ->
             <<"function f(a) {", "const g = (a) => {", "class A {", "  m(a) {">>
      [] language = "Unsupported" -> <<"void f(int a) {", "int g(x) { }">>

PythonLineKinds ==
    { "def f(a, b):", "    x = 1", "    if a and b:", "", "# note", "x = 2", "\tdef g():",
      "\"\"\"doc", "end\"\"\"" }

HtmlLineKinds ==
    { "<script>", "  if (a && b) {", "</script>", "<style>", "a > .b { top: 0 }", "</style>",
      "<form>", "<input><button>", "</form>", "<!-- note", "end -->", "<p>x</p> <!-- tail",
      HtmlDeepLine }

ParseLineKinds(language) ==
    CASE language = "Python" -> PythonLineKinds
      [] language = "HTML" -> HtmlLineKinds
      [] language = "CSS" -> CssLineKinds
      [] language = "PHP" -> PhpLineKinds \cup PhpCommentKinds
      [] OTHER -> BraceLineKinds \cup Range(SignatureLines(language))

\* a function on the lines 2 to 10 whose body holds one if and one for
BraceFixture(language) ==
    <<"// note", SignatureLines(language)[1], "  if (a) {", "    x = 1;", "  }",
      "  for (;;) {", "    x = 2;", "  }", "  return x;", "}">>

\* def f(): on line 1, five body lines, then a line at indentation 0
PythonFixture ==
    <<"def f():", "    x = 1", "    if x:", "        x = 2", "", "    return x", "x = 2">>

\* a class with two methods, and a class with a constructor and one method
ClassFixtures ==
    { <<"class A {", "  m(a) {", "    x = 1;", "  }", "  n(b) {", "  }", "}">>,
      <<"class B {", "  constructor(a) { }", "  m(a) { }", "}">> }

ParseFixtures(language) ==
    CASE language \in {"JavaScript", "TypeScript"} ->
             {BraceFixture(language)} \cup ClassFixtures
      [] language \in BraceLanguages \cup {"Unsupported"} -> {BraceFixture(language)}
      [] language = "Python" -> {PythonFixture}
      [] OTHER -> {}

\* the files a tree may hold
FileCatalogue ==
    << SourceFile("a.go", "Go", TRUE, <<>>,
                  BaseParseResult(<<Function("x", 1, 5, 1, 0),
                                    Function("getUser", 6, 20, 4, 1)>>, 0, 20, "Go")),
       SourceFile("b.css", "CSS", TRUE, <<"a {", "  color: red;", "}}">>,
                  BaseParseResult(<<>>, 0, 0, "CSS")),
       SourceFile("c.php", "PHP", TRUE,
                  <<"<?php", "// note", "function foo($a, $b) {",
                    "  if ($a) { return 1; }", "}">>,
                  BaseParseResult(<<>>, 0, 0, "PHP")),
       SourceFile("d.py", "Python", FALSE, <<>>, BaseParseResult(<<>>, 0, 0, "Python")),
       SourceFile("e.css", "CSS", TRUE, <<"a {", "}}}">>,
                  BaseParseResult(<<>>, 0, 0, "CSS")),
       SourceFile("f.php", "PHP", TRUE, <<"function f() {}">>,
                  BaseParseResult(<<>>, 0, 0, "PHP")) >>

FileIds == 1..Len(FileCatalogue)

\* files found under the root directory
MaxFiles == 3

\* threads of the pool
MaxWorkers == 2

Workers == 1..MaxWorkers

\* per-file data given to aggregate_results
MaxBatch == 3

ScoreValues == {Zero, Q(2, 5), Q(17, 20), One}

\* a per-file metric map with the seven metrics' weights and descriptions,
\* whose complexity score is first and whose other scores are rest
MetricsWithScores(first, rest) ==
    LET template == AnalyzeMetrics(BaseParseResult(<<>>, 0, 0, "Go"), <<>>, <<>>)
    IN  [name \in DOMAIN template |->
            [template[name] EXCEPT !.score = IF name = ComplexityName THEN first ELSE rest]]

(***************************************************************************)
(* State                                                                   *)
(***************************************************************************)
VARIABLES
    parse_result,      \* the UnitModel under analysis
    metric_results,    \* name -> MetricResult, as analyze_metrics returns it
    file_score,        \* calculate_score of metric_results
    project_metrics,   \* calculate_average_metrics over the copies of the file
    project_score,     \* calculate_score of project_metrics
    mpc,               \* "build", "analyzed", "averaged"; "idle" in other specifications
    file_language,     \* language of the file under extraction
    file_lines,        \* its content, as str::lines yields it
    scan,              \* local variables of the extractor's scan loop
    extracted,         \* what Parser::parse returned
    overflow_checks,   \* whether the build checks integer overflow
    root,              \* the analysed path: missing, a directory or one file
    config_ok,         \* whether the filter patterns compile
    found,             \* the files find_source_files yields under the root
    num_workers,       \* threads of the pool
    run_pc,            \* position of the calling thread in analyze_with_config
    todo,              \* files no worker has started
    wpc,               \* position of each worker in the for_each closure
    wfile,             \* the file each worker is on
    wdata,             \* the FileAnalysisData each worker holds
    lock,              \* holder of the results mutex, 0 when free
    file_results,      \* the shared vector behind the mutex
    progress,          \* position of the progress bar
    reads,             \* files read_file was called on
    outcome            \* what analyze_with_config returned

metricVars ==
    <<parse_result, metric_results, file_score, project_metrics, project_score, mpc>>

extractVars == <<file_language, file_lines, scan, extracted>>

runVars ==
    <<root, config_ok, found, num_workers, run_pc, todo, wpc, wfile, wdata, lock,
      file_results, progress, reads, outcome>>

vars == <<metricVars, extractVars, overflow_checks, runVars>>

NoData == FileAnalysisData("", EmptyMap, <<>>, 0)

NoOutcome == [kind |-> "none", error |-> "", result |-> CreateEmptyResult]

IdleMetricVars ==
    /\ parse_result = BaseParseResult(<<>>, 0, 0, "Unsupported")
    /\ metric_results = EmptyMap
    /\ file_score = Zero
    /\ project_metrics = EmptyMap
    /\ project_score = Zero
    /\ mpc = "idle"

IdleExtractVars ==
    /\ file_language = "Unsupported"
    /\ file_lines = <<>>
    /\ scan = [i |-> 0, status |-> "idle"]
    /\ extracted = [status |-> "none", result |-> BaseParseResult(<<>>, 0, 0, "Unsupported")]

IdleRunVars ==
    /\ root = [kind |-> "none", file |-> 0]
    /\ config_ok = TRUE
    /\ found = {}
    /\ num_workers = 1
    /\ run_pc = "idle"
    /\ todo = {}
    /\ wpc = [w \in Workers |-> "idle"]
    /\ wfile = [w \in Workers |-> 0]
    /\ wdata = [w \in Workers |-> NoData]
    /\ lock = 0
    /\ file_results = <<>>
    /\ progress = 0
    /\ reads = {}
    /\ outcome = NoOutcome

(***************************************************************************)
(* Specification SpecMetrics: the metric engine on bounded unit models     *)
(***************************************************************************)
InitMetricVars ==
    /\ \E language \in LanguageType, comment_lines \in 0..MaxCommentLines :
           parse_result = BaseParseResult(<<>>, comment_lines, comment_lines, language)
    /\ metric_results = EmptyMap
    /\ file_score = Zero
    /\ project_metrics = EmptyMap
    /\ project_score = Zero
    /\ mpc = "build"

\* a further unit, placed after the last line of the file so far
AddUnit ==
    /\ mpc = "build"
    /\ Len(parse_result.functions) < MaxUnits
    /\ \E shape \in UnitShapes :
           parse_result' =
               [parse_result EXCEPT
                   !.functions = Append(@, Function(shape[1], parse_result.total_lines + 1,
                                                    parse_result.total_lines + shape[4],
                                                    shape[2], shape[3])),
                   !.total_lines = @ + shape[4]]
    /\ UNCHANGED <<metric_results, file_score, project_metrics, project_score, mpc>>
    /\ UNCHANGED <<extractVars, overflow_checks, runVars>>

\* analyze_metrics and calculate_score on the unit model
AnalyzeUnitModel ==
    /\ mpc = "build"
    /\ \E group_order \in GroupOrders(parse_result),
          naming_order \in NamingOrders(parse_result) :
           /\ metric_results' = AnalyzeMetrics(parse_result, group_order, naming_order)
           /\ file_score' = CalculateScore(metric_results')
    /\ mpc' = "analyzed"
    /\ UNCHANGED <<parse_result, project_metrics, project_score>>
    /\ UNCHANGED <<extractVars, overflow_checks, runVars>>

\* the averaging of aggregate_results over a directory that holds the file
\* in 1..MaxCopies copies
AverageCopies ==
    /\ mpc = "analyzed"
    /\ \E copies \in 1..MaxCopies :
           /\ project_metrics' =
                  CalculateAverageMetrics(
                      AllMetrics([k \in 1..copies |->
                          FileAnalysisData("", metric_results, <<>>,
                                           parse_result.total_lines)]))
           /\ project_score' = CalculateScore(project_metrics')
    /\ mpc' = "averaged"
    /\ UNCHANGED <<parse_result, metric_results, file_score>>
    /\ UNCHANGED <<extractVars, overflow_checks, runVars>>

InitMetrics ==
    /\ InitMetricVars
    /\ IdleExtractVars
    /\ overflow_checks = TRUE
    /\ IdleRunVars

NextMetrics == AddUnit \/ AnalyzeUnitModel \/ AverageCopies

SpecMetrics == InitMetrics /\ [][NextMetrics]_vars

(***************************************************************************)
(* Specification SpecExtract: the CSS and PHP extractors, line by line     *)
(***************************************************************************)
\* the sequences over S of length at most n
RECURSIVE SeqsUpTo(_, _)
SeqsUpTo(S, n) ==
    IF n = 0 THEN {<<>>}
    ELSE LET shorter == SeqsUpTo(S, n - 1)
         IN  shorter \cup {Append(seq, x) : seq \in shorter, x \in S}

InitExtract ==
    /\ IdleMetricVars
    /\ IdleRunVars
    /\ overflow_checks \in BOOLEAN
    /\ file_language \in {"CSS", "PHP"}
    /\ file_lines \in SeqsUpTo(LineKinds(file_language), MaxLines)
    /\ scan = IF file_language = "CSS" THEN CssScanInit(file_lines)
              ELSE PhpScanInit(file_lines)
    /\ extracted = [status |-> "none", result |-> BaseParseResult(<<>>, 0, 0, file_language)]

\* one iteration of the loop of detect_css_rules
CssScan ==
    /\ file_language = "CSS"
    /\ extracted.status = "none"
    /\ scan.status = "run"
    /\ scan' = CssScanLine(scan, file_lines, overflow_checks)
    /\ UNCHANGED <<file_language, file_lines, extracted, overflow_checks>>
    /\ UNCHANGED <<metricVars, runVars>>

\* the rest of CSSParser::parse, or the unwinding of a panic
CssReturn ==
    /\ file_language = "CSS"
    /\ extracted.status = "none"
    /\ scan.status \in {"done", "panic"}
    /\ extracted' = CssParseOf(scan, file_lines)
    /\ UNCHANGED <<file_language, file_lines, scan, overflow_checks>>
    /\ UNCHANGED <<metricVars, runVars>>

\* one iteration of the loop of detect_functions, followed while the vector
\* of functions holds fewer than MaxDetected entries
PhpScan ==
    /\ file_language = "PHP"
    /\ extracted.status = "none"
    /\ scan.status = "run"
    /\ Len(scan.functions) < MaxDetected
    /\ scan' = PhpScanStep(scan, file_lines, overflow_checks)
    /\ UNCHANGED <<file_language, file_lines, extracted, overflow_checks>>
    /\ UNCHANGED <<metricVars, runVars>>

\* the rest of PHPParser::parse, or the unwinding of a panic
PhpReturn ==
    /\ file_language = "PHP"
    /\ extracted.status = "none"
    /\ scan.status \in {"done", "panic"}
    /\ extracted' = PhpParseOf(scan, file_lines)
    /\ UNCHANGED <<file_language, file_lines, scan, overflow_checks>>
    /\ UNCHANGED <<metricVars, runVars>>

NextExtract == CssScan \/ CssReturn \/ PhpScan \/ PhpReturn

SpecExtract == InitExtract /\ [][NextExtract]_vars

(***************************************************************************)
(* Specification SpecParse: Parser::parse of every registered parser on    *)
(* bounded file contents                                                   *)
(***************************************************************************)
\* create_parser_for_language
CreateParserForLanguage(language) ==
    CASE language = "Rust" -> "RustParser"
      [] language = "Go" -> "GoParser"
      [] language = "JavaScript" -> "JavaScriptParser"
      [] language = "TypeScript" -> "TypeScriptParser"
      [] language = "Python" -> "PythonParser"
      [] language = "Java" -> "JavaParser"
      [] language \in {"C", "CPlusPlus"} -> "CParser"
      [] language = "CSharp" -> "CSharpParser"
      [] language = "PHP" -> "PHPParser"
      [] language = "HTML" -> "HTMLParser"
      [] language = "CSS" -> "CSSParser"
      [] OTHER -> "GenericParser"

InitParse ==
    /\ IdleMetricVars
    /\ IdleRunVars
    /\ file_language \in ParseLanguages
    /\ file_lines \in SeqsUpTo(ParseLineKinds(file_language), MaxParseLines)
                          \cup ParseFixtures(file_language)
    /\ overflow_checks \in IF file_language \in {"CSS", "PHP"} THEN BOOLEAN ELSE {TRUE}
    /\ scan = [i |-> 0, status |-> "idle"]
    /\ extracted = [status |-> "none", result |-> BaseParseResult(<<>>, 0, 0, file_language)]

\* Parser::parse of the parser created for the language returns result
Returns(parser, result) ==
    /\ CreateParserForLanguage(file_language) = parser
    /\ extracted.status = "none"
    /\ extracted' = [status |-> "ok", result |-> result]
    /\ UNCHANGED <<file_language, file_lines, scan, overflow_checks>>
    /\ UNCHANGED <<metricVars, runVars>>

\* Parser::parse of a parser whose scan may unwind or not return
ReturnsOrFails(parser, parsed) ==
    /\ CreateParserForLanguage(file_language) = parser
    /\ extracted.status = "none"
    /\ extracted' = parsed
    /\ UNCHANGED <<file_language, file_lines, scan, overflow_checks>>
    /\ UNCHANGED <<metricVars, runVars>>

ParseC == Returns("CParser", CParse(file_lines, file_language))

ParseGo == Returns("GoParser", GoParse(file_lines))

ParseJava == Returns("JavaParser", JavaParse(file_lines))

ParseCSharp == Returns("CSharpParser", CSharpParse(file_lines))

ParseJavaScript == Returns("JavaScriptParser", JsParse(file_lines, "JavaScript"))

ParseTypeScript == Returns("TypeScriptParser", JsParse(file_lines, "TypeScript"))

ParsePython == Returns("PythonParser", PyParse(file_lines))

ParseHtml == Returns("HTMLParser", HtmlParse(file_lines))

ParseGeneric == Returns("GenericParser", GenericParse(file_lines))

ParseCss == ReturnsOrFails("CSSParser", CssParse(file_lines, overflow_checks))

ParsePhp == ReturnsOrFails("PHPParser", PhpParse(file_lines, overflow_checks))

NextParse ==
    \/ ParseC
    \/ ParseGo
    \/ ParseJava
    \/ ParseCSharp
    \/ ParseJavaScript
    \/ ParseTypeScript
    \/ ParsePython
    \/ ParseHtml
    \/ ParseGeneric
    \/ ParseCss
    \/ ParsePhp

SpecParse == InitParse /\ [][NextParse]_vars

(***************************************************************************)
(* Specification Spec: analyze_with_config, its pool of workers included   *)
(***************************************************************************)
Roots ==
    {[kind |-> "missing", file |-> 0], [kind |-> "dir", file |-> 0]}
    \cup {[kind |-> "file", file |-> f] : f \in FileIds}

Init ==
    /\ IdleMetricVars
    /\ IdleExtractVars
    /\ overflow_checks \in BOOLEAN
    /\ root \in Roots
    /\ config_ok \in (IF root.kind = "dir" THEN BOOLEAN ELSE {TRUE})
    /\ found \in (IF root.kind = "dir"
                  THEN {files \in SUBSET FileIds : Cardinality(files) <= MaxFiles}
                  ELSE {{}})
    /\ num_workers \in (IF root.kind = "dir" /\ config_ok /\ found # {}
                        THEN 1..MaxWorkers ELSE {1})
    /\ run_pc = "start"
    /\ todo = {}
    /\ wpc = [w \in Workers |-> "idle"]
    /\ wfile = [w \in Workers |-> 0]
    /\ wdata = [w \in Workers |-> NoData]
    /\ lock = 0
    /\ file_results = <<>>
    /\ progress = 0
    /\ reads = {}
    /\ outcome = NoOutcome

Err(error) == [kind |-> "err", error |-> error, result |-> CreateEmptyResult]

Ok(result) == [kind |-> "ok", error |-> "", result |-> result]

Panicked == [kind |-> "panic", error |-> "", result |-> CreateEmptyResult]

\* validate_path
ValidatePath ==
    /\ run_pc = "start"
    /\ IF root.kind = "missing"
       THEN /\ outcome' = Err("FileNotFound")
            /\ run_pc' = "done"
       ELSE /\ outcome' = outcome
            /\ run_pc' = "validated"
    /\ UNCHANGED <<root, config_ok, found, num_workers, todo, wpc, wfile, wdata, lock,
                   file_results, progress, reads>>
    /\ UNCHANGED <<metricVars, extractVars, overflow_checks>>

\* the single-file branch: analyze_single_file on the root
RunSingleFile ==
    /\ run_pc = "validated"
    /\ root.kind = "file"
    /\ \E safe \in AnalyzeFileSafeOutcomes(FileCatalogue[root.file], overflow_checks) :
           LET single == AnalyzeSingleFile(safe, FileCatalogue[root.file])
           IN  IF single.kind = "hang"
               THEN /\ run_pc' = "hung"
                    /\ outcome' = outcome
               ELSE /\ run_pc' = "done"
                    /\ outcome' = [kind |-> single.kind, error |-> single.error,
                                   result |-> single.result]
    /\ reads' = reads \cup {root.file}
    /\ UNCHANGED <<root, config_ok, found, num_workers, todo, wpc, wfile, wdata, lock,
                   file_results, progress>>
    /\ UNCHANGED <<metricVars, extractVars, overflow_checks>>

\* find_files, and the return of the empty result when it finds no file
FindFiles ==
    /\ run_pc = "validated"
    /\ root.kind = "dir"
    /\ IF ~config_ok
       THEN /\ outcome' = Err("Anyhow")
            /\ run_pc' = "done"
            /\ todo' = todo
       ELSE IF found = {}
       THEN /\ outcome' = Ok(CreateEmptyResult)
            /\ run_pc' = "done"
            /\ todo' = todo
       ELSE /\ outcome' = outcome
            /\ run_pc' = "fanout"
            /\ todo' = found
    /\ UNCHANGED <<root, config_ok, found, num_workers, wpc, wfile, wdata, lock,
                   file_results, progress, reads>>
    /\ UNCHANGED <<metricVars, extractVars, overflow_checks>>

\* Mutex::lock returns when no thread holds the mutex
MutexAlwaysFree(holder) == TRUE

MutexFree(holder) == holder = 0

\* a worker takes a file of the parallel iterator and runs analyze_file_safe
StartFile(w, f) ==
    /\ run_pc = "fanout"
    /\ w <= num_workers
    /\ wpc[w] = "idle"
    /\ f \in todo
    /\ todo' = todo \ {f}
    /\ reads' = reads \cup {f}
    /\ wfile' = [wfile EXCEPT ![w] = f]
    /\ \E safe \in AnalyzeFileSafeOutcomes(FileCatalogue[f], overflow_checks) :
           /\ wdata' = [wdata EXCEPT ![w] = safe.data]
           /\ wpc' = [wpc EXCEPT ![w] = CASE safe.kind = "ok" -> "analysed"
                                          [] safe.kind = "err" -> "counting"
                                          [] safe.kind = "panic" -> "panicked"
                                          [] safe.kind = "hang" -> "hung"]
    /\ UNCHANGED <<root, config_ok, found, num_workers, run_pc, lock, file_results,
                   progress, outcome>>
    /\ UNCHANGED <<metricVars, extractVars, overflow_checks>>

\* results.lock().unwrap()
AcquireLock(w) ==
    /\ wpc[w] = "analysed"
    /\ MutexFree(lock)
    /\ lock' = w
    /\ wpc' = [wpc EXCEPT ![w] = "locked"]
    /\ UNCHANGED <<root, config_ok, found, num_workers, run_pc, todo, wfile, wdata,
                   file_results, progress, reads, outcome>>
    /\ UNCHANGED <<metricVars, extractVars, overflow_checks>>

\* res.push(data), and the guard dropped at the end of the block
PushResult(w) ==
    /\ wpc[w] = "locked"
    /\ file_results' = Append(file_results, wdata[w])
    /\ lock' = 0
    /\ wpc' = [wpc EXCEPT ![w] = "counting"]
    /\ UNCHANGED <<root, config_ok, found, num_workers, run_pc, todo, wfile, wdata,
                   progress, reads, outcome>>
    /\ UNCHANGED <<metricVars, extractVars, overflow_checks>>

\* pb.inc(1), the end of the closure
ProgressInc(w) ==
    /\ wpc[w] = "counting"
    /\ progress' = progress + 1
    /\ wpc' = [wpc EXCEPT ![w] = "idle"]
    /\ wfile' = [wfile EXCEPT ![w] = 0]
    /\ wdata' = [wdata EXCEPT ![w] = NoData]
    /\ UNCHANGED <<root, config_ok, found, num_workers, run_pc, todo, lock, file_results,
                   reads, outcome>>
    /\ UNCHANGED <<metricVars, extractVars, overflow_checks>>

\* for_each returns once every file was processed; the vector is taken out
\* of the mutex and aggregate_results builds the result
JoinAndAggregate ==
    /\ run_pc = "fanout"
    /\ todo = {}
    /\ \A w \in Workers : wpc[w] = "idle"
    /\ outcome' = Ok(AggregateResults(file_results))
    /\ run_pc' = "done"
    /\ UNCHANGED <<root, config_ok, found, num_workers, todo, wpc, wfile, wdata, lock,
                   file_results, progress, reads>>
    /\ UNCHANGED <<metricVars, extractVars, overflow_checks>>

\* a panic of a worker is resumed in the calling thread once the other
\* workers have left their closures; files not yet started may be skipped
JoinPanic ==
    /\ run_pc = "fanout"
    /\ \E w \in Workers : wpc[w] = "panicked"
    /\ \A w \in Workers : wpc[w] \in {"idle", "panicked"}
    /\ outcome' = Panicked
    /\ run_pc' = "done"
    /\ UNCHANGED <<root, config_ok, found, num_workers, todo, wpc, wfile, wdata, lock,
                   file_results, progress, reads>>
    /\ UNCHANGED <<metricVars, extractVars, overflow_checks>>

Next ==
    \/ ValidatePath
    \/ RunSingleFile
    \/ FindFiles
    \/ \E w \in Workers, f \in FileIds : StartFile(w, f)
    \/ \E w \in Workers : AcquireLock(w)
    \/ \E w \in Workers : PushResult(w)
    \/ \E w \in Workers : ProgressInc(w)
    \/ JoinAndAggregate
    \/ JoinPanic

Spec == Init /\ [][Next]_vars

(***************************************************************************)
(* Specification SpecAggregate: aggregate_results on bounded batches       *)
(***************************************************************************)
InitAggregate ==
    /\ IdleMetricVars
    /\ IdleExtractVars
    /\ overflow_checks = TRUE
    /\ root = [kind |-> "none", file |-> 0]
    /\ config_ok = TRUE
    /\ found = {}
    /\ num_workers = 1
    /\ run_pc = "batch"
    /\ todo = {}
    /\ wpc = [w \in Workers |-> "idle"]
    /\ wfile = [w \in Workers |-> 0]
    /\ wdata = [w \in Workers |-> NoData]
    /\ lock = 0
    /\ file_results = <<>>
    /\ progress = 0
    /\ reads = {}
    /\ outcome = NoOutcome

\* a further file's data, its scores drawn from ScoreValues
AddFileData ==
    /\ run_pc = "batch"
    /\ Len(file_results) < MaxBatch
    /\ \E first \in ScoreValues, rest \in ScoreValues :
           file_results' =
               Append(file_results,
                      FileAnalysisData(ToString(Len(file_results) + 1),
                                       MetricsWithScores(first, rest), <<>>, 10))
    /\ UNCHANGED <<root, config_ok, found, num_workers, run_pc, todo, wpc, wfile, wdata,
                   lock, progress, reads, outcome>>
    /\ UNCHANGED <<metricVars, extractVars, overflow_checks>>

\* aggregate_results on the batch
AggregateBatch ==
    /\ run_pc = "batch"
    /\ Len(file_results) >= 1
    /\ outcome' = Ok(AggregateResults(file_results))
    /\ run_pc' = "done"
    /\ UNCHANGED <<root, config_ok, found, num_workers, todo, wpc, wfile, wdata, lock,
                   file_results, progress, reads>>
    /\ UNCHANGED <<metricVars, extractVars, overflow_checks>>

NextAggregate == AddFileData \/ AggregateBatch

SpecAggregate == InitAggregate /\ [][NextAggregate]_vars

(***************************************************************************)
(* Properties of the metric engine (SpecMetrics)                           *)
(***************************************************************************)
\* C1: every score the program produces lies in [0,1]: the score of each of
\* the seven metrics on every unit model, the file score computed from them,
\* and the project-level averaged metric scores and overall score computed
\* from the per-file results.
C1_ScoresInUnit ==
    /\ mpc \in {"analyzed", "averaged"} =>
           /\ \A k \in DOMAIN metric_results : InUnit(metric_results[k].score)
           /\ InUnit(file_score)
    /\ mpc = "averaged" =>
           /\ \A k \in DOMAIN project_metrics : InUnit(project_metrics[k].score)
           /\ InUnit(project_score)

\* averages were taken over a unit model with units on which two metrics
\* reach their clamp at 1
C1_Witness ==
    /\ mpc = "averaged"
    /\ Len(parse_result.functions) >= 2
    /\ metric_results[NamingName].score = One
    /\ project_metrics[ComplexityName].score = One

\* C7: the file score is the weighted mean of exactly the seven metric
\* scores, with weights 0.30, 0.20, 0.15, 0.10, 0.08, 0.15, 0.15, and the
\* seven metric names are distinct keys of the per-file mapping.
C7_FileScoreFormula ==
    mpc \in {"analyzed", "averaged"} =>
        /\ DOMAIN metric_results = MetricNames
        /\ Cardinality(DOMAIN metric_results) = 7
        /\ metric_results[ComplexityName].weight = Q(30, 100)
        /\ metric_results[FunctionLengthName].weight = Q(20, 100)
        /\ metric_results[CommentRatioName].weight = Q(15, 100)
        /\ metric_results[ErrorHandlingName].weight = Q(10, 100)
        /\ metric_results[NamingName].weight = Q(8, 100)
        /\ metric_results[DuplicationName].weight = Q(15, 100)
        /\ metric_results[StructureName].weight = Q(15, 100)
        /\ QMul(file_score, QInt(113)) =
               QSum(<<QMul(QInt(30), metric_results[ComplexityName].score),
                      QMul(QInt(20), metric_results[FunctionLengthName].score),
                      QMul(QInt(15), metric_results[CommentRatioName].score),
                      QMul(QInt(10), metric_results[ErrorHandlingName].score),
                      QMul(QInt(8), metric_results[NamingName].score),
                      QMul(QInt(15), metric_results[DuplicationName].score),
                      QMul(QInt(15), metric_results[StructureName].score)>>)

\* an analysed file with units whose seven scores are not all equal
C7_Witness ==
    /\ mpc = "analyzed"
    /\ Len(parse_result.functions) >= 1
    /\ metric_results[FunctionLengthName].score # metric_results[ComplexityName].score
    /\ file_score # Zero

Analysed == mpc \in {"analyzed", "averaged"}

\* C14: a unit model without units gets the score 0 and no issue from the
\* function-length metric and from the duplication metric.
C14_NoUnitsScoreZero ==
    (Analysed /\ Len(parse_result.functions) = 0) =>
        /\ metric_results[FunctionLengthName].score = Zero
        /\ metric_results[FunctionLengthName].issues = <<>>
        /\ metric_results[DuplicationName].score = Zero
        /\ metric_results[DuplicationName].issues = <<>>

\* a file of one comment line and no unit was analysed; the other metrics
\* give it their base scores
C14_Witness ==
    /\ mpc = "analyzed"
    /\ Len(parse_result.functions) = 0
    /\ parse_result.comment_lines = 1
    /\ metric_results[ComplexityName].score = Q(4, 10)
    /\ metric_results[NamingName].score = Q(4, 10)

\* the first four parts of the duplication signature: size bucket,
\* complexity bucket, parameter bucket and exact line count
Buckets(func) == SubSeq(Split(ExtractFunctionPattern(func), ":"), 1, 4)

\* the duplication issues of the given tag that name both units
IssuesNamingBoth(tag, f, g) ==
    LET issues == metric_results[DuplicationName].issues
    IN  {k \in 1..Len(issues) :
            /\ issues[k][1] = tag
            /\ LET names == {Trim(part) : part \in Range(Split(issues[k][Len(issues[k])], ","))}
               IN  f.name \in names /\ g.name \in names}

\* the pairs of units of the model that have different names
NamedApart ==
    {pair \in (1..Len(parse_result.functions)) \X (1..Len(parse_result.functions)) :
        /\ pair[1] < pair[2]
        /\ parse_result.functions[pair[1]].name # parse_result.functions[pair[2]].name}

FlaggedName(name) ==
    \/ Len(name) <= 2
    \/ name \in {"tmp", "temp", "xxx", "foo", "bar", "test"}
    \/ \A k \in 1..Len(name) : SubSeq(name, k, k) \in {"x", "y", "z"}

CommentRatioOf(result) ==
    IF result.total_lines = 0 THEN Zero ELSE Q(result.comment_lines, result.total_lines)

\* C21 as stated: the comment score is max(0, 0.9 - 5 * (ratio * 100)), so
\* that a file with 1% comment lines scores 0.
C21_ScoreFivePerPercent ==
    Analysed =>
        metric_results[CommentRatioName].score
            = QMax(Zero, QSub(Q(9, 10),
                              QMul(QInt(5), QMul(CommentRatioOf(parse_result), QInt(100)))))

\* C21, amended: the comment score is max(0, 0.9 - 5 * ratio), that is 0.05
\* less for each percent of comment lines; a file with 1% comment lines
\* scores 0.85 and a file with 18% or more scores 0.
C21_ScoreFiveHundredthsPerPercent ==
    Analysed =>
        /\ metric_results[CommentRatioName].score
               = QMax(Zero, QSub(Q(9, 10), QMul(QInt(5), CommentRatioOf(parse_result))))
        /\ (100 * parse_result.comment_lines = parse_result.total_lines
                /\ parse_result.total_lines > 0)
               => metric_results[CommentRatioName].score = Q(85, 100)
        /\ (100 * parse_result.comment_lines >= 18 * parse_result.total_lines
                /\ parse_result.total_lines > 0)
               => metric_results[CommentRatioName].score = Zero

\* a file of 100 lines, one of them a comment line, was analysed and scores
\* 0.85
C21_Witness ==
    /\ mpc = "analyzed"
    /\ parse_result.total_lines = 100
    /\ parse_result.comment_lines = 1
    /\ metric_results[CommentRatioName].score = Q(85, 100)

\* the fraction of the units of the model whose line count lies above low
\* and at most high (high = 0: no upper limit)
SpanFraction(result, low, high) ==
    Q(Cardinality({k \in 1..Len(result.functions) :
                      /\ result.functions[k].end_line - result.functions[k].start_line + 1 > low
                      /\ (high = 0 \/
                          result.functions[k].end_line - result.functions[k].start_line + 1
                              <= high)}),
      Len(result.functions))

\* C22 as stated: with at least one unit the function-length score is
\* min(1, 0.3 r40 + 0.5 r70 + 0.8 r120), r40, r70 and r120 being the
\* fractions of the units with more than 40, more than 70 and more than 120
\* lines.
C22_ScoreFromExceeding ==
    (Analysed /\ Len(parse_result.functions) > 0) =>
        metric_results[FunctionLengthName].score
            = QMin(One, QAdd(QAdd(QMul(Q(3, 10), SpanFraction(parse_result, 40, 0)),
                                  QMul(Q(5, 10), SpanFraction(parse_result, 70, 0))),
                             QMul(Q(8, 10), SpanFraction(parse_result, 120, 0))))

\* C22, amended: with at least one unit the function-length score is
\* 0.3 r40 + 0.5 r70 + 0.8 r120, r40, r70 and r120 being the fractions of
\* the units with 41 to 70 lines, with 71 to 120 lines and with more than 120
\* lines; a unit counts in one band only, and the score is at most 0.8.
C22_ScoreFromBands ==
    (Analysed /\ Len(parse_result.functions) > 0) =>
        /\ metric_results[FunctionLengthName].score
               = QAdd(QAdd(QMul(Q(3, 10), SpanFraction(parse_result, 40, 70)),
                           QMul(Q(5, 10), SpanFraction(parse_result, 70, 120))),
                      QMul(Q(8, 10), SpanFraction(parse_result, 120, 0)))
        /\ QLe(metric_results[FunctionLengthName].score, Q(8, 10))

\* units of 45, 75 and 125 lines were analysed: one unit in each band, and
\* the score is (0.3 + 0.5 + 0.8) / 3
C22_Witness ==
    /\ mpc = "analyzed"
    /\ [k \in 1..Len(parse_result.functions) |-> parse_result.functions[k].name]
           = <<"malloc_read", "handle_v2", "fetchResult">>
    /\ metric_results[FunctionLengthName].score = Q(8, 15)

\* the estimated nesting depth of a unit: complexity / 3, rounded up
DepthOf(func) == CHOOSE d \in 0..func.complexity : 3 * d >= func.complexity /\ 3 * (d - 1) < func.complexity

\* the largest estimated nesting depth of the units of the model
LargestDepth(result) ==
    CHOOSE d \in {DepthOf(result.functions[k]) : k \in 1..Len(result.functions)} :
        \A k \in 1..Len(result.functions) : DepthOf(result.functions[k]) <= d

\* C23: the structure score is min(1, 0.4 + 0.15 (d - 1)), d being the
\* largest estimated nesting depth ceil(complexity / 3) of the units, and 0.4
\* without units; each unit with a depth above 3 gets one deep-nesting issue,
\* the stronger one when its depth is above 5, and there is no other issue.
C23_ScoreFromLargestDepth ==
    Analysed =>
        /\ metric_results[StructureName].score =
               IF Len(parse_result.functions) = 0 THEN Q(4, 10)
               ELSE QMin(One, QAdd(Q(4, 10),
                                   QMul(Q(15, 100), QInt(LargestDepth(parse_result) - 1))))
        /\ metric_results[StructureName].issues =
               Flatten([k \in 1..Len(parse_result.functions) |->
                   IF DepthOf(parse_result.functions[k]) > 5
                   THEN <<<<"nesting_too_deep", parse_result.functions[k].name,
                            DepthOf(parse_result.functions[k])>>>>
                   ELSE IF DepthOf(parse_result.functions[k]) > 3
                   THEN <<<<"nesting_deep", parse_result.functions[k].name,
                            DepthOf(parse_result.functions[k])>>>>
                   ELSE <<>>])

\* units of depth 3, 5 and 6 were analysed: the score is clamped to 1 and
\* the last two units have an issue each
C23_Witness ==
    /\ mpc = "analyzed"
    /\ [k \in 1..Len(parse_result.functions) |-> parse_result.functions[k].name]
           = <<"process1", "parse_v3", "fetchResult">>
    /\ metric_results[StructureName].score = One
    /\ metric_results[StructureName].issues
           = <<<<"nesting_deep", "parse_v3", 5>>, <<"nesting_too_deep", "fetchResult", 6>>>>

\* the number of lines of a unit
Span(func) == func.end_line - func.start_line + 1

\* the similarity of a signature as the sum of its weights: 0.2 to 0.4 for
\* the size bucket, 0.1 to 0.4 for the complexity bucket, 0.2 for a
\* parameter bucket other than "none", 0.1 or 0.2 for a long line count
StatedSimilarity(func) ==
    QMin(One,
         Q((IF Span(func) <= 30 THEN 2 ELSE IF Span(func) <= 60 THEN 3 ELSE 4)
           + (IF func.complexity <= 3 THEN 1 ELSE IF func.complexity <= 7 THEN 2
              ELSE IF func.complexity <= 12 THEN 3 ELSE 4)
           + (IF func.parameters # 0 THEN 2 ELSE 0)
           + (IF Span(func) > 20 THEN 2 ELSE IF Span(func) > 10 THEN 1 ELSE 0),
           10))

\* the units that share the signature of unit i
SignatureGroup(result, i) ==
    {j \in 1..Len(result.functions) :
        ExtractFunctionPattern(result.functions[j]) = ExtractFunctionPattern(result.functions[i])}

\* unit i is the first of its group in name order
FirstInGroup(result, i) ==
    \A j \in SignatureGroup(result, i) :
        \/ j = i
        \/ StrLess(result.functions[i].name, result.functions[j].name)
        \/ (result.functions[i].name = result.functions[j].name /\ i < j)

\* the names of the group of unit i, in name order, as an issue lists them
GroupNames(result, i) ==
    Join([k \in 1..Cardinality(SignatureGroup(result, i)) |->
             SortByName(SelectSeq(result.functions,
                                  LAMBDA f : ExtractFunctionPattern(f)
                                                 = ExtractFunctionPattern(result.functions[i])))[k].name],
         ", ")

\* how the group of unit i is to be reported according to its similarity
GroupLevel(result, i) ==
    IF Cardinality(SignatureGroup(result, i)) < 2 THEN "none"
    ELSE IF QLt(Q(7, 10), StatedSimilarity(result.functions[i])) THEN "high"
    ELSE IF QLt(Q(5, 10), StatedSimilarity(result.functions[i])) THEN "moderate"
    ELSE "none"

\* the duplicated lines: the spans of the members of the highly similar
\* groups, the first member of each in name order left out
DuplicatedLines(result) ==
    SumSeq([i \in 1..Len(result.functions) |->
               IF GroupLevel(result, i) = "high" /\ ~FirstInGroup(result, i)
               THEN Span(result.functions[i]) ELSE 0])

\* the penalty of the similarity groups: the similarity for each member of a
\* highly similar group, half of it for each member of a moderately similar one
GroupPenalty(result) ==
    QSum([i \in 1..Len(result.functions) |->
             IF GroupLevel(result, i) = "high" THEN StatedSimilarity(result.functions[i])
             ELSE IF GroupLevel(result, i) = "moderate"
             THEN QMul(Q(1, 2), StatedSimilarity(result.functions[i]))
             ELSE Zero])

\* the units that take part in a naming pattern: the name differs from its
\* base name, and the base name is the same
NamingPeers(result, i) ==
    {j \in 1..Len(result.functions) :
        /\ GetBaseName(result.functions[j].name) # result.functions[j].name
        /\ GetBaseName(result.functions[j].name) = GetBaseName(result.functions[i].name)}

\* the penalties for naming patterns (0.3 for each member of a flagged group)
\* and for repeated parameter signatures (0.2 for each unit, above 3 units)
OtherPenalty(result) ==
    QAdd(QMul(Q(3, 10),
              QInt(Cardinality({i \in 1..Len(result.functions) :
                                   /\ GetBaseName(result.functions[i].name) # ""
                                   /\ i \in NamingPeers(result, i)
                                   /\ Cardinality(NamingPeers(result, i)) > 2}))),
         IF DetectParameterDuplication(result.functions) > 3
         THEN QMul(Q(2, 10), QInt(DetectParameterDuplication(result.functions)))
         ELSE Zero)

\* the duplication issues with the given tag that list the given names
IssuesListing(tag, names) ==
    {k \in 1..Len(metric_results[DuplicationName].issues) :
        /\ metric_results[DuplicationName].issues[k][1] = tag
        /\ metric_results[DuplicationName].issues[k][
               Len(metric_results[DuplicationName].issues[k])] = names}

\* C24: a signature group of two or more units is reported as highly similar
\* when its similarity is above 0.7, and then the spans of its members but
\* the first in name order count as duplicated lines; as moderately similar,
\* at half weight and without duplicated lines, when its similarity is above
\* 0.5 and at most 0.7; and not at all when it is at most 0.5.  The
\* duplicated lines never exceed the lines of all units.
C24_GroupsByStatedSimilarity ==
    (Analysed /\ Len(parse_result.functions) >= 2) =>
        /\ \A i \in 1..Len(parse_result.functions) :
               /\ (IssuesListing("highly_similar", GroupNames(parse_result, i)) # {})
                      <=> (GroupLevel(parse_result, i) = "high")
               /\ (IssuesListing("similar_structure", GroupNames(parse_result, i)) # {})
                      <=> (GroupLevel(parse_result, i) = "moderate")
        /\ metric_results[DuplicationName].score =
               QMin(One,
                    QAdd(QMul(Q(4, 10),
                              Q(DuplicatedLines(parse_result),
                                SumSeq([i \in 1..Len(parse_result.functions) |->
                                           Span(parse_result.functions[i])]))),
                         QMul(Q(6, 10),
                              QMin(One,
                                   QDiv(QAdd(GroupPenalty(parse_result),
                                             OtherPenalty(parse_result)),
                                        QInt(Len(parse_result.functions)))))))
        /\ DuplicatedLines(parse_result)
               <= SumSeq([i \in 1..Len(parse_result.functions) |->
                             Span(parse_result.functions[i])])

\* parse_v2 and parse_v3 (15 lines, complexity 13, no parameter: weights 0.2,
\* 0.4 and 0.1) were analysed and are reported as highly similar at 70%
C24_Witness ==
    /\ mpc = "analyzed"
    /\ [k \in 1..Len(parse_result.functions) |-> parse_result.functions[k].name]
           = <<"parse_v2", "parse_v3">>
    /\ StatedSimilarity(parse_result.functions[1]) = Q(7, 10)
    /\ metric_results[DuplicationName].issues
           = <<<<"highly_similar", 70, "parse_v2, parse_v3">>>>

\* the base name of a unit name as the naming rule states it: the name
\* without a trailing variant suffix, else without its trailing digits and
\* the variant suffix before them; nothing if fewer than 3 characters remain
StatedBaseName(name) ==
    LET suffixes == {"_v2", "_v3", "_new", "_old", "_temp", "_tmp", "_copy", "_backup"}
        cut(text) == IF \E suffix \in suffixes : EndsWith(text, suffix)
                     THEN SubSeq(text, 1,
                                 Len(text) - Len(CHOOSE suffix \in suffixes : EndsWith(text, suffix)))
                     ELSE text
        digits == {k \in 1..Len(name) :
                      \A h \in k..Len(name) : SubSeq(name, h, h) \in Digits}
        base == IF cut(name) # name THEN cut(name)
                ELSE cut(SubSeq(name, 1, Len(name) - Cardinality(digits)))
    IN  IF Len(base) < 3 THEN "" ELSE base

\* the units of the model that have the base name of unit i
BaseNameGroup(result, i) ==
    {j \in 1..Len(result.functions) :
        StatedBaseName(result.functions[j].name) = StatedBaseName(result.functions[i].name)}

\* C25: the units with one base name, a unit whose name is the base name
\* included, form one group, and the groups of more than 2 members, and no
\* others, are flagged as a naming pattern; parse, parse_v2 and parse_v3 are
\* one flagged group with the base name parse.
C25_BaseNameGroupsFlagged ==
    (Analysed /\ Len(parse_result.functions) >= 2) =>
        /\ \A i \in 1..Len(parse_result.functions) :
               StatedBaseName(parse_result.functions[i].name) # "" =>
                   ((<<"naming_pattern", StatedBaseName(parse_result.functions[i].name),
                       Cardinality(BaseNameGroup(parse_result, i))>>
                        \in Range(metric_results[DuplicationName].issues))
                    <=> Cardinality(BaseNameGroup(parse_result, i)) > 2)
        /\ \A k \in 1..Len(metric_results[DuplicationName].issues) :
               metric_results[DuplicationName].issues[k][1] = "naming_pattern" =>
                   \E i \in 1..Len(parse_result.functions) :
                       /\ metric_results[DuplicationName].issues[k][2]
                              = StatedBaseName(parse_result.functions[i].name)
                       /\ metric_results[DuplicationName].issues[k][3]
                              = Cardinality(BaseNameGroup(parse_result, i))

\* parse, parse_v2 and parse_v3 were analysed and no naming pattern is
\* reported: the only duplication issue is the similarity of the two variants
C25_Witness ==
    /\ mpc = "analyzed"
    /\ [k \in 1..Len(parse_result.functions) |-> parse_result.functions[k].name]
           = <<"parse", "parse_v2", "parse_v3">>
    /\ \A k \in 1..Len(metric_results[DuplicationName].issues) :
           metric_results[DuplicationName].issues[k][1] # "naming_pattern"
    /\ GetBaseName("parse_v2") = "parse_v"
    /\ GetBaseName("parse") = "parse"

\* the language tags for which the error-handling metric has no rule
OtherFamilies == {"PHP", "HTML", "CSS", "Unsupported"}

\* C29: the error-handling metric never emits the issue for handling of low
\* quality: a unit with error potential and error handling has a quality of
\* at least 0.3, so every issue is the one for potential without handling;
\* for PHP, HTML, CSS and unsupported languages there is no issue, and a file
\* with at least one unit scores exactly 0.3.
C29_OnlyMissingHandlingReported ==
    Analysed =>
        /\ \A k \in 1..Len(metric_results[ErrorHandlingName].issues) :
               /\ metric_results[ErrorHandlingName].issues[k][1] = "error_handling_missing"
               /\ \E i \in 1..Len(parse_result.functions) :
                      /\ parse_result.functions[i].name
                             = metric_results[ErrorHandlingName].issues[k][2]
                      /\ AnalyzeFunctionErrorHandling(parse_result.functions[i],
                                                      parse_result.language).has_error_potential
                      /\ ~AnalyzeFunctionErrorHandling(parse_result.functions[i],
                                                       parse_result.language).has_error_handling
        /\ \A i \in 1..Len(parse_result.functions) :
               (/\ AnalyzeFunctionErrorHandling(parse_result.functions[i],
                                                parse_result.language).has_error_potential
                /\ AnalyzeFunctionErrorHandling(parse_result.functions[i],
                                                parse_result.language).has_error_handling)
                   => QLe(Q(3, 10),
                          AnalyzeFunctionErrorHandling(parse_result.functions[i],
                                                       parse_result.language).error_handling_quality)
        /\ parse_result.language \in OtherFamilies =>
               /\ metric_results[ErrorHandlingName].issues = <<>>
               /\ Len(parse_result.functions) > 0 =>
                      metric_results[ErrorHandlingName].score = Q(3, 10)

\* a C file was analysed in which malloc_read has error potential without
\* handling and fetchResult has both: only the first has an issue
C29_Witness ==
    /\ mpc = "analyzed"
    /\ parse_result.language = "C"
    /\ [k \in 1..Len(parse_result.functions) |-> parse_result.functions[k].name]
           = <<"malloc_read", "fetchResult">>
    /\ AnalyzeFunctionErrorHandling(parse_result.functions[2], "C").has_error_potential
    /\ AnalyzeFunctionErrorHandling(parse_result.functions[2], "C").has_error_handling
    /\ metric_results[ErrorHandlingName].issues = <<<<"error_handling_missing", "malloc_read">>>>

(***************************************************************************)
(* Properties of the extractors (SpecExtract)                              *)
(***************************************************************************)
\* C5: extraction never fails: on every content the extractor returns a unit
\* model without panicking, and the brace counter of the CSS scan never goes
\* below zero.
C5_ExtractTotal ==
    /\ scan.status # "panic"
    /\ extracted.status # "panic"
    /\ file_language = "CSS" => scan.brace_count >= 0

\* the CSS scan has wrapped its counter and gone on
C5_Witness ==
    /\ file_language = "CSS"
    /\ ~overflow_checks
    /\ scan.brace_count < 0
    /\ extracted.status = "ok"

\* C6: in the PHP function scan the line index strictly advances over every
\* step that detects a function.
C6_IndexAdvances ==
    [][(file_language = "PHP" /\ Len(scan'.functions) > Len(scan.functions))
           => scan'.i > scan.i]_vars

\* the scan has detected the same one-line function more than once
C6_Witness ==
    /\ file_language = "PHP"
    /\ Len(scan.functions) >= 2
    /\ scan.functions[1] = scan.functions[2]
    /\ scan.status = "run"

\* the brace depth after each of the first n lines, counted from zero
RECURSIVE BraceDepth(_, _)
BraceDepth(lines, n) ==
    IF n = 0 THEN 0
    ELSE BraceDepth(lines, n - 1) + CountMatches(lines[n], "{") - CountMatches(lines[n], "}")

\* the braces of the content balance: the depth is never negative and ends at 0
Balanced(lines) ==
    /\ \A n \in 1..Len(lines) : BraceDepth(lines, n) >= 0
    /\ BraceDepth(lines, Len(lines)) = 0

\* the top-level rules of a balanced content, each as the pair of the line
\* of its opening brace and the line on which its braces balance
BalancedRules(lines) ==
    LET closing == {n \in 1..Len(lines) :
                       /\ Contains(lines[n], "}")
                       /\ BraceDepth(lines, n) = 0}
        opening(n) == CHOOSE m \in 1..n :
                          /\ BraceDepth(lines, m - 1) = 0
                          /\ Contains(lines[m], "{")
                          /\ \A k \in m..(n - 1) : BraceDepth(lines, k) > 0
    IN  [k \in 1..Cardinality(closing) |->
            <<opening(Ascending(closing)[k]), Ascending(closing)[k]>>]

\* C20: on a CSS content whose braces balance, every top-level rule is
\* reported as exactly one unit that ends on the line where its braces
\* balance and starts on the line of its opening brace, or on the selector
\* line just above it; a rule after a closed rule is reported again.
C20_BalancedRulesReported ==
    (file_language = "CSS" /\ extracted.status = "ok" /\ Balanced(file_lines)) =>
        LET rules == BalancedRules(file_lines)
            units == extracted.result.functions
        IN  /\ Len(units) = Len(rules)
            /\ \A k \in 1..Len(rules) :
                   /\ units[k].end_line = rules[k][2]
                   /\ units[k].start_line \in {rules[k][1] - 1, rules[k][1]}

\* the rule "a {", "color: red;", "}" was scanned and no unit was reported
C20_Witness ==
    /\ file_language = "CSS"
    /\ file_lines = <<"a {", "  color: red;", "}">>
    /\ extracted.status = "ok"
    /\ extracted.result.functions = <<>>

(***************************************************************************)
(* Properties of the parsers (SpecParse)                                   *)
(***************************************************************************)
Parsed == extracted.status = "ok"

Units == extracted.result.functions

\* C11: every unit of every unit model a parser returns has
\* 1 <= start_line <= end_line <= total_lines and complexity >= 1.
C11_UnitsWellFormed ==
    Parsed =>
        \A k \in 1..Len(Units) :
            /\ 1 <= Units[k].start_line
            /\ Units[k].start_line <= Units[k].end_line
            /\ Units[k].end_line <= extracted.result.total_lines
            /\ Units[k].complexity >= 1

\* the HTML parser returned the pseudo-unit of a file with many elements,
\* which spans the whole file
C11_Witness ==
    /\ Parsed
    /\ file_language = "HTML"
    /\ Len(file_lines) = MaxParseLines
    /\ \E k \in 1..Len(Units) :
           /\ Units[k].name = "html_structure"
           /\ Units[k].start_line = 1
           /\ Units[k].end_line = Len(file_lines)
           /\ Units[k].complexity >= 5

\* the braces of the lines from line first on, each with its line number
BraceEvents(lines, first) ==
    Flatten([n \in 1..(Len(lines) - first + 1) |->
                SelectSeq([k \in 1..Len(lines[first + n - 1]) |->
                              <<first + n - 1, CharAt(lines[first + n - 1], k)>>],
                          LAMBDA event : event[2] \in {"{", "}"})])

\* the depth after the k-th brace, counted from the brace numbered from
DepthAfter(events, from, k) ==
    Cardinality({h \in from..k : events[h][2] = "{"})
        - Cardinality({h \in from..k : events[h][2] = "}"})

\* the line on which the depth counted from the first opening brace at or
\* after line first returns to zero; 0 when there is no such line or when a
\* closing brace precedes the first opening brace
BalancedEnd(lines, first) ==
    LET events == BraceEvents(lines, first)
        opens == {k \in 1..Len(events) : events[k][2] = "{"}
        from == CHOOSE k \in opens : \A h \in opens : k <= h
        zeros == {k \in from..Len(events) : DepthAfter(events, from, k) = 0}
    IN  IF opens = {} \/ from # 1 \/ zeros = {} THEN 0
        ELSE events[CHOOSE k \in zeros : \A h \in zeros : k <= h][1]

\* C12: in the brace-counted languages a unit ends on the first line on
\* which the brace depth, counted from the first opening brace on or after
\* its signature line, returns to zero.
C12_EndWhereBracesBalance ==
    (Parsed /\ file_language \in BraceLanguages) =>
        \A k \in 1..Len(Units) :
            (/\ BalancedEnd(file_lines, Units[k].start_line) # 0
             /\ ~Contains(file_lines[Units[k].start_line], "=>"))
                => Units[k].end_line = BalancedEnd(file_lines, Units[k].start_line)

\* the C parser has ended a function whose signature line opens two blocks
\* on the line that closes the inner one
C12_Witness ==
    /\ Parsed
    /\ file_language = "C"
    /\ file_lines = <<"int g(void) { if (a) {", "}", "}">>
    /\ Len(Units) = 1
    /\ Units[1].end_line = 2

\* the indentation of a line: its leading spaces count 1, its leading tabs 4
Indentation(line) ==
    LET blank == {k \in 1..Len(line) : \A h \in 1..k : CharAt(line, h) \in {" ", "\t"}}
    IN  Cardinality({k \in blank : CharAt(line, k) = " "})
            + 4 * Cardinality({k \in blank : CharAt(line, k) = "\t"})

\* a line that is neither blank nor a comment and is indented by at most b
Dedents(line, b) ==
    /\ \E k \in 1..Len(line) : CharAt(line, k) \notin {" ", "\t"}
    /\ ~StartsWith(Trim(line), "#")
    /\ Indentation(line) <= b

\* C13: a Python unit introduced on line s with indentation b ends on the
\* line before the first later line that is neither blank nor a comment
\* and is indented by at most b, and on the last line when there is none.
C13_EndBeforeDedent ==
    (Parsed /\ file_language = "Python") =>
        \A k \in 1..Len(Units) :
            LET s == Units[k].start_line
                later == {n \in (s + 1)..Len(file_lines) :
                             Dedents(file_lines[n], Indentation(file_lines[s]))}
            IN  Units[k].end_line =
                    IF later = {} THEN Len(file_lines)
                    ELSE (CHOOSE n \in later : \A h \in later : n <= h) - 1

\* def f(): on line 1, five body lines, the last but one blank, and a line
\* at indentation 0: the unit ends on line 6
C13_Witness ==
    /\ Parsed
    /\ file_language = "Python"
    /\ file_lines = PythonFixture
    /\ Len(Units) = 1
    /\ Units[1].start_line = 1
    /\ Units[1].end_line = 6

\* the control-flow keywords and the operators of each language
Tokens(language) ==
    CASE language \in {"C", "CPlusPlus"} ->
             <<"if", "else", "for", "while", "do", "switch", "case", "&&", "||", "?">>
      [] language = "Go" -> <<"if", "else", "for", "switch", "case", "&&", "||">>
      [] language = "Java" ->
             <<"if", "else", "for", "while", "switch", "case", "catch", "&&", "||">>
      [] language = "CSharp" ->
             <<"if", "else", "for", "foreach", "while", "do", "switch", "case", "catch",
               "&&", "||", "??", "?">>
      [] language \in {"JavaScript", "TypeScript"} ->
             <<"if", "else", "for", "while", "switch", "case", "catch", "&&", "||", "?">>
      [] language = "Python" ->
             <<"if", "elif", "else", "for", "while", "except", "finally", "and", "or">>
      [] language = "Unsupported" ->
             <<"if", "else", "for", "while", "switch", "case", "catch", "match", "loop",
               "elif", "except", "finally", "&&", "||", "?">>

SpacedLanguages == {"C", "CPlusPlus", "Go", "Java", "CSharp"}

\* how an occurrence of a token is told in a language: between two spaces,
\* as it stands, or after a space and before a colon
Occurrence(language, token) ==
    IF language = "Unsupported" THEN token
    ELSE IF language \in {"JavaScript", "TypeScript"} /\ token \in {"&&", "||", "?"}
    THEN token
    ELSE IF language = "Python" /\ token \in {"else", "finally"} THEN " " \o token \o ":"
    ELSE " " \o token \o " "

\* 1 plus the occurrences of the patterns on the lines of the span of unit
CountedComplexity(unit, patterns) ==
    1 + SumSeq([n \in 1..(unit.end_line - unit.start_line + 1) |->
                   SumSeq([k \in 1..Len(patterns) |->
                              CountMatches(file_lines[unit.start_line + n - 1],
                                           patterns[k])])])

FunctionLanguages == BraceLanguages \cup {"Python", "Unsupported"}

\* C18 as stated: in every parser the complexity of a unit is 1 plus the
\* number of occurrences, on the lines of its span, of the keywords and
\* operators of the language, each between two spaces.
C18_TokensBetweenSpaces ==
    (Parsed /\ file_language \in FunctionLanguages) =>
        \A k \in 1..Len(Units) :
            Units[k].complexity =
                CountedComplexity(Units[k],
                                  [t \in 1..Len(Tokens(file_language)) |->
                                      " " \o Tokens(file_language)[t] \o " "])

\* C18, amended: the complexity of a unit is 1 plus the number of
\* occurrences on the lines of its span of the tokens of the language, an
\* occurrence being a token between two spaces in C, C++, Go, Java and C#;
\* in JavaScript and TypeScript a keyword between two spaces or an operator
\* as it stands; in Python a token between two spaces, else and finally
\* after a space and before a colon; for a language without a parser of its
\* own every token as it stands.  A function of a brace-counted language
\* whose body holds one if and one for has complexity 3.
C18_TokensAsCounted ==
    (Parsed /\ file_language \in FunctionLanguages) =>
        /\ \A k \in 1..Len(Units) :
               Units[k].complexity =
                   CountedComplexity(Units[k],
                                     [t \in 1..Len(Tokens(file_language)) |->
                                         Occurrence(file_language, Tokens(file_language)[t])])
        /\ (file_language \in BraceLanguages /\ file_lines = BraceFixture(file_language))
               => (Len(Units) = 1 /\ Units[1].complexity = 3)

\* the JavaScript parser counted the && that no space bounds
C18_Witness ==
    /\ Parsed
    /\ file_language = "JavaScript"
    /\ file_lines = <<"function f(a) {", "  if (a&&b || c) {", "}">>
    /\ Len(Units) = 1
    /\ Units[1].complexity = 4

\* the delimiters of the comments of a language: the single-line prefixes,
\* the opening and the closing delimiter of a block comment
CommentSyntax(language) ==
    CASE language = "HTML" -> [prefixes |-> {}, opening |-> "<!--", closing |-> "-->"]
      [] language = "CSS" -> [prefixes |-> {}, opening |-> "/*", closing |-> "*/"]
      [] language = "PHP" -> [prefixes |-> {"//", "#"}, opening |-> "/*", closing |-> "*/"]
      [] OTHER -> [prefixes |-> {"//"}, opening |-> "/*", closing |-> "*/"]

\* the position of the first occurrence of p in s, 0 when there is none
FirstIndex(s, p) ==
    IF Contains(s, p)
    THEN CHOOSE i \in 1..Len(s) :
             /\ i + Len(p) - 1 <= Len(s)
             /\ SubSeq(s, i, i + Len(p) - 1) = p
             /\ \A h \in 1..(i - 1) : SubSeq(s, h, h + Len(p) - 1) # p
    ELSE 0

\* whether a block comment is open after the first n lines: it opens where
\* a line outside a comment, not a single-line comment, holds the opening
\* delimiter anywhere, and closes with the closing delimiter
RECURSIVE InsideBlock(_, _, _)
InsideBlock(lines, n, syntax) ==
    IF n = 0 THEN FALSE
    ELSE IF InsideBlock(lines, n - 1, syntax) THEN ~Contains(lines[n], syntax.closing)
    ELSE /\ \A prefix \in syntax.prefixes : ~StartsWith(Trim(lines[n]), prefix)
         /\ Contains(lines[n], syntax.opening)
         /\ ~Contains(SubSeq(lines[n],
                             FirstIndex(lines[n], syntax.opening) + Len(syntax.opening),
                             Len(lines[n])),
                      syntax.closing)

\* the lines that lie in a block comment or begin with a single-line prefix
CommentLineSet(lines, syntax) ==
    {n \in 1..Len(lines) :
        \/ InsideBlock(lines, n - 1, syntax)
        \/ \E prefix \in syntax.prefixes : StartsWith(Trim(lines[n]), prefix)
        \/ Contains(lines[n], syntax.opening)}

\* C19: the comment scan counts once every line from the opening to the
\* closing delimiter of a block comment, also when the comment opens after
\* code, and of the other lines those that begin with the single-line prefix.
C19_BlockLinesCounted ==
    (Parsed /\ file_language # "Python") =>
        extracted.result.comment_lines
            = Cardinality(CommentLineSet(file_lines, CommentSyntax(file_language)))

\* the C parser has counted one comment line in a file of three
C19_Witness ==
    /\ Parsed
    /\ file_language = "C"
    /\ file_lines = <<"x = 1; /* tail", "end */", "// note">>
    /\ extracted.result.comment_lines = 1

\* a line that opens a class
OpensClass(line) == Contains(line, "class ") /\ Contains(line, "{")

\* the blocks opened on the lines c to n - 1 and not closed on them
OpenBefore(lines, c, n) ==
    LET events == BraceEvents(lines, c)
    IN  Cardinality({k \in 1..Len(events) : events[k][1] < n /\ events[k][2] = "{"})
            - Cardinality({k \in 1..Len(events) : events[k][1] < n /\ events[k][2] = "}"})

\* line n lies in the body of the class opened on line c
InBodyOf(lines, c, n) ==
    /\ c < n
    /\ OpensClass(lines[c])
    /\ \A m \in (c + 1)..n : OpenBefore(lines, c, m) >= 1

InClassBody(lines, n) == \E c \in 1..Len(lines) : InBodyOf(lines, c, n)

MethodNameOn(line) == GroupText(line, Captures(JsMethodRegex, line), 1)

\* line n declares a method other than constructor directly in a class body
DeclaresMethod(lines, n) ==
    /\ IsMatch(JsMethodRegex, lines[n])
    /\ MethodNameOn(lines[n]) # "constructor"
    /\ \E c \in 1..Len(lines) : InBodyOf(lines, c, n) /\ OpenBefore(lines, c, n) = 1

\* the units hold the method that starts on line n
MethodUnitAt(n) ==
    /\ IsMatch(JsMethodRegex, file_lines[n])
    /\ \E k \in 1..Len(Units) :
           /\ Units[k].start_line = n
           /\ Units[k].name = MethodNameOn(file_lines[n])

\* C26: the JavaScript and TypeScript parsers report every method other than
\* constructor that is declared in a class body, the methods after the
\* closing line of an earlier method included, and report no line outside a
\* class body as a method.
C26_ClassMethodsReported ==
    (Parsed /\ file_language \in {"JavaScript", "TypeScript"}) =>
        \A n \in 1..Len(file_lines) :
            /\ DeclaresMethod(file_lines, n) => MethodUnitAt(n)
            /\ MethodUnitAt(n) => InClassBody(file_lines, n)

\* the class with the methods m and n is parsed: m is a unit, n is none
C26_Witness ==
    /\ Parsed
    /\ file_language = "JavaScript"
    /\ Len(file_lines) = 7
    /\ file_lines[1] = "class A {"
    /\ DeclaresMethod(file_lines, 2) /\ DeclaresMethod(file_lines, 5)
    /\ MethodUnitAt(2)
    /\ ~MethodUnitAt(5)

(***************************************************************************)
(* Properties of the orchestrator (Spec, SpecAggregate)                    *)
(***************************************************************************)
\* the found files whose read and extraction succeed
Succeeding ==
    {f \in found : /\ FileCatalogue[f].readable
                   /\ ParseFile(FileCatalogue[f], overflow_checks).status = "ok"}

\* the result of one run over the files: they are analysed one after the
\* other in catalogue order, each with one fixed outcome of its analysis
ReferenceResult(files) ==
    AggregateResults(
        [k \in 1..Cardinality(files) |->
            (CHOOSE safe \in AnalyzeFileSafeOutcomes(FileCatalogue[Ascending(files)[k]],
                                                     overflow_checks) : TRUE).data])

\* equality of two results up to the order of files_analyzed
SameResult(a, b) ==
    /\ a.code_quality_score = b.code_quality_score
    /\ a.metrics = b.metrics
    /\ a.total_files = b.total_files
    /\ a.total_lines = b.total_lines
    /\ a.is_empty = b.is_empty
    /\ Range(a.files_analyzed) = Range(b.files_analyzed)

DirectoryRunDone == run_pc = "done" /\ root.kind = "dir" /\ config_ok /\ found # {}

\* C2: for a fixed set of files, every directory run that returns a result
\* returns the same result up to the order of files_analyzed, whatever the
\* order in which the workers append and whatever their number.
C2_OrderIndependent ==
    (DirectoryRunDone /\ outcome.kind = "ok") =>
        SameResult(outcome.result, ReferenceResult(Succeeding))

\* two workers appended their results against the order of the file list
C2_Witness ==
    /\ DirectoryRunDone
    /\ outcome.kind = "ok"
    /\ num_workers = 2
    /\ outcome.result.total_files >= 2
    /\ outcome.result.files_analyzed[1].file_path
           # FileCatalogue[Ascending(Succeeding)[1]].path

SingleFileRunDone == run_pc = "done" /\ root.kind = "file" /\ outcome.kind = "ok"

\* C17: the analysis of a file is deterministic, issue order included: every
\* run over the same single file returns the same result, with the same
\* issue list in the same order, whatever order the hash maps are walked in.
C17_SameIssuesEveryRun ==
    SingleFileRunDone =>
        outcome.result =
            AnalyzeSingleFile(CHOOSE safe \in AnalyzeFileSafeOutcomes(FileCatalogue[root.file],
                                                                     overflow_checks) : TRUE,
                              FileCatalogue[root.file]).result

\* a run over a file in which two metrics raised issues, so that
\* collect_issues had more than one order to walk the map in
C17_Witness ==
    /\ SingleFileRunDone
    /\ Len(outcome.result.files_analyzed[1].issues) >= 2
    /\ Cardinality(IssueOrders(outcome.result.metrics)) >= 2

\* C3: in the fan-out each successfully analysed file is appended to the
\* shared vector exactly once and only by the worker that holds the lock, so
\* that the result has one entry per such file and total_files counts them.
C3_AppendExactlyOnce ==
    /\ \A i, j \in 1..Len(file_results) :
           i # j => file_results[i].path # file_results[j].path
    /\ \A w \in Workers : wpc[w] = "locked" => lock = w
    /\ \A w \in Workers :
           wpc[w] \in {"analysed", "locked"} =>
               \A k \in 1..Len(file_results) : file_results[k].path # wdata[w].path
    /\ \A k \in 1..Len(file_results) :
           \E f \in Succeeding \ todo : FileCatalogue[f].path = file_results[k].path
    /\ (DirectoryRunDone /\ outcome.kind = "ok") =>
           /\ {entry.file_path : entry \in Range(outcome.result.files_analyzed)}
                  = {FileCatalogue[f].path : f \in Succeeding}
           /\ Len(outcome.result.files_analyzed) = Cardinality(Succeeding)
           /\ outcome.result.total_files = Cardinality(Succeeding)

\* a worker holds the lock while the other waits for it with its result
C3_Witness ==
    /\ Len(file_results) >= 1
    /\ wpc[1] = "locked"
    /\ wpc[2] = "analysed"

\* C4: a directory run in which the read or the extraction of a file fails
\* still returns a result, and the result is the one of the run over the
\* remaining files.
C4_FailedFileSkipped ==
    DirectoryRunDone =>
        /\ outcome.kind = "ok"
        /\ outcome.result.total_files = Cardinality(Succeeding)
        /\ outcome.result.metrics = ReferenceResult(Succeeding).metrics
        /\ outcome.result.total_lines = ReferenceResult(Succeeding).total_lines
        /\ outcome.result.code_quality_score =
               ReferenceResult(Succeeding).code_quality_score

\* a run that skipped an unreadable file and returned the other files' result
C4_Witness ==
    /\ DirectoryRunDone
    /\ outcome.kind = "ok"
    /\ \E f \in found : ~FileCatalogue[f].readable
    /\ outcome.result.total_files >= 1

\* C9: a directory run that finds no file returns the fixed empty result and
\* reads no file.
C9_EmptyResult ==
    (run_pc = "done" /\ root.kind = "dir" /\ config_ok /\ found = {}) =>
        /\ outcome.kind = "ok"
        /\ outcome.result =
               [code_quality_score |-> Zero, metrics |-> EmptyMap,
                files_analyzed |-> <<>>, total_files |-> 0, total_lines |-> 0,
                is_empty |-> TRUE]
        /\ reads = {}
        /\ file_results = <<>>
        /\ progress = 0

\* the run over an empty directory has returned
C9_Witness ==
    /\ run_pc = "done"
    /\ root.kind = "dir"
    /\ config_ok
    /\ found = {}
    /\ outcome.kind = "ok"

\* C10 as stated: the run returns an error only when the root path does not
\* exist or a filter pattern is invalid, whether the root is a directory or a
\* single file.
C10_OnlyFatalErrors ==
    outcome.kind = "err" => (root.kind = "missing" \/ (root.kind = "dir" /\ ~config_ok))

\* C10, amended: the run returns an error exactly when the root path does not
\* exist (FileNotFound), when a filter pattern is invalid, or when the root is
\* a single file that cannot be read (Io); a directory run whose patterns are
\* valid never returns an error, whatever files cannot be read.
C10_ErrorsReturned ==
    /\ run_pc = "done" =>
           /\ root.kind = "missing" <=> (outcome.kind = "err" /\ outcome.error = "FileNotFound")
           /\ (root.kind = "dir" /\ ~config_ok)
                  <=> (outcome.kind = "err" /\ outcome.error = "Anyhow")
           /\ (root.kind = "file" /\ ~FileCatalogue[root.file].readable)
                  <=> (outcome.kind = "err" /\ outcome.error = "Io")
    /\ outcome.kind = "err" => run_pc = "done"
    /\ DirectoryRunDone => outcome.kind # "err"

\* the run on a single unreadable file has returned the read error
C10_Witness ==
    /\ run_pc = "done"
    /\ root.kind = "file"
    /\ ~FileCatalogue[root.file].readable
    /\ outcome.kind = "err"
    /\ outcome.error = "Io"
    /\ reads = {root.file}

FileScores(result) ==
    [k \in 1..Len(result.files_analyzed) |-> result.files_analyzed[k].file_score]

\* C27: in a directory run with at least one analysed file the overall score
\* is the arithmetic mean of the file scores of files_analyzed.
C27_ScoreIsMeanOfFileScores ==
    (DirectoryRunDone /\ outcome.kind = "ok" /\ outcome.result.total_files >= 1) =>
        outcome.result.code_quality_score
            = QDiv(QSum(FileScores(outcome.result)),
                   QInt(Len(outcome.result.files_analyzed)))

\* a directory run has returned the result of three files that do not all
\* have the same score
C27_Witness ==
    /\ DirectoryRunDone
    /\ outcome.kind = "ok"
    /\ outcome.result.total_files = 3
    /\ Cardinality(Range(FileScores(outcome.result))) >= 2
    /\ outcome.result.code_quality_score \notin Range(FileScores(outcome.result))

\* C28: a directory run that finds files and can analyse none of them
\* returns a result with is_empty false, no file, no metric, no line and the
\* score 0; a returned result has is_empty true only when no file was found.
C28_AllFailedNotEmpty ==
    (run_pc = "done" /\ root.kind = "dir" /\ config_ok) =>
        /\ (found # {} /\ Succeeding = {}) =>
               /\ outcome.kind = "ok"
               /\ outcome.result = AnalysisResult(Zero, EmptyMap, <<>>, 0, 0, FALSE)
        /\ (outcome.kind = "ok" /\ outcome.result.is_empty) => found = {}

\* the run over a directory whose only file cannot be read has returned
C28_Witness ==
    /\ DirectoryRunDone
    /\ found # {}
    /\ \A f \in found : ~FileCatalogue[f].readable
    /\ outcome.kind = "ok"
    /\ outcome.result.total_files = 0
    /\ ~outcome.result.is_empty

\* C30: every parser returns comment_lines <= total_lines, whatever the
\* state in which the comment scan reads a line, so that the comment ratio
\* is at most 1.
C30_CommentLinesWithinTotal ==
    Parsed =>
        /\ extracted.result.comment_lines <= extracted.result.total_lines
        /\ extracted.result.total_lines = Len(file_lines)
        /\ QLe(CommentRatioOf(extracted.result), One)

\* the Java parser has counted three lines of three: the opening line of a
\* doc comment, a line with the single-line prefix read inside it and the
\* closing line
C30_Witness ==
    /\ Parsed
    /\ file_language = "Java"
    /\ file_lines = <<"/** doc", "// note", "end */">>
    /\ extracted.result.comment_lines = 3
    /\ extracted.result.total_lines = 3
    /\ CommentRatioOf(extracted.result) = One

====
